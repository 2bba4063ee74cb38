--------------------------- MODULE EventHub_proofs ---------------------------
(***************************************************************************)
(* The event stream of a run keeps its promise, EventLog, for any number of *)
(* readers, events, subscriptions and broken connections and for every size *)
(* of the ring and of a subscriber's buffer.                                *)
(*                                                                         *)
(* The argument is that numbers are never skipped on their way: the ring    *)
(* holds the latest events in order from eventStart on, a replay is what    *)
(* follows the reader's last event without a gap unless the reader is told  *)
(* to start over, and the channel of a subscriber ends with the latest      *)
(* event: one it cannot hold any more takes it out of the subscribers.      *)
(***************************************************************************)
EXTENDS EventHub, FiniteSetTheorems, SequenceTheorems, TLAPS

(* Where the i-th oldest event is in the ring.                             *)
Slot(i) == IF eventStart - 1 + i <= Len(events) THEN eventStart - 1 + i ELSE eventStart - 1 + i - Len(events)

(* The ring holds the latest events, in order from eventStart on, and what  *)
(* is older was overwritten.                                               *)
RingInOrder ==
  /\ Len(events) < EventLimit => eventStart = 1 /\ droppedThrough = 0
  /\ eventStart = 1 \/ eventStart <= Len(events)
  /\ nextSequence = droppedThrough + Len(events)
  /\ \A i \in 1 .. Len(events) : events[Slot(i)] = droppedThrough + i

(* A channel belongs to the one subscription it was made for.              *)
ChannelsBelong ==
  /\ capacity \in [Channels -> Nat]
  /\ \A c \in Channels : capacity[c] = 0 => c \notin subscribers /\ c \notin closed
  /\ \A r \in Readers : conn[r] # NoChannel => capacity[conn[r]] # 0
  /\ \A r, s \in Readers : r # s /\ conn[r] # NoChannel => conn[r] # conn[s]
  /\ \A r \in reset : conn[r] # NoChannel

(* What is on its way to a reader that goes on follows what it has received,
   without a gap; a reader that has received nothing may start later.      *)
QueueFollows(r) ==
  LET q == queue[conn[r]] IN
  /\ \A i \in 1 .. Len(q) : q[i] = q[1] + i - 1
  /\ q # <<>> => q[1] = last[r] + 1 \/ (last[r] = 0 /\ q[1] <= droppedThrough + 1)
  /\ conn[r] \in subscribers =>
       nextSequence = IF q = <<>> THEN last[r] ELSE q[1] + Len(q) - 1

ReadersFollow ==
  /\ \A r \in Readers : last[r] <= nextSequence
  /\ \A c \in Channels : \A i \in 1 .. Len(queue[c]) : queue[c][i] <= nextSequence
  /\ \A r \in Readers : conn[r] # NoChannel /\ r \notin reset => QueueFollows(r)

HubInv == StreamsAreSound /\ RingInOrder /\ ChannelsBelong /\ ReadersFollow
-----------------------------------------------------------------------------
(* Sequences.                                                              *)

(* What an appended sequence has at each place.                            *)
LEMMA AppendFacts ==
  ASSUME NEW S, NEW q \in Seq(S), NEW e \in S
  PROVE  /\ Append(q, e) \in Seq(S) /\ Append(q, e) # <<>>
         /\ Len(Append(q, e)) = Len(q) + 1 /\ Len(q) \in Nat
         /\ Append(q, e)[Len(q) + 1] = e
         /\ \A i \in 1 .. Len(q) : Append(q, e)[i] = q[i] /\ q[i] \in S
OBVIOUS

(* A queue of consecutive numbers stays one when the next number is added.  *)
LEMMA AppendNext ==
  ASSUME NEW q \in Seq(Nat), q # <<>>, NEW e \in Nat,
         \A i \in 1 .. Len(q) : q[i] = q[1] + i - 1, e = q[1] + Len(q)
  PROVE  /\ Append(q, e)[1] = q[1]
         /\ e = Append(q, e)[1] + Len(Append(q, e)) - 1
         /\ \A i \in 1 .. Len(Append(q, e)) : Append(q, e)[i] = Append(q, e)[1] + i - 1
<1> DEFINE p == Append(q, e)
<1>1. /\ Len(p) = Len(q) + 1 /\ Len(q) \in Nat
      /\ p[Len(q) + 1] = e
      /\ \A i \in 1 .. Len(q) : p[i] = q[i] /\ q[i] \in Nat
  BY AppendFacts
<1> HIDE DEF p
<1>2. Len(q) # 0
  OBVIOUS
<1>3. 1 \in 1 .. Len(q) /\ p[1] = q[1] /\ q[1] \in Nat
  BY <1>1, <1>2
<1>4. \A i \in 1 .. Len(q) + 1 : p[i] = q[1] + i - 1
  <2> SUFFICES ASSUME NEW i \in 1 .. Len(q) + 1 PROVE p[i] = q[1] + i - 1
    OBVIOUS
  <2>1. CASE i \in 1 .. Len(q)
    BY <1>1, <2>1
  <2>2. CASE i = Len(q) + 1
    BY <1>1, <1>3, <2>2
  <2>3. QED
    BY <1>1, <2>1, <2>2
<1>5. /\ p[1] = q[1] /\ e = p[1] + Len(p) - 1
      /\ \A i \in 1 .. Len(p) : p[i] = p[1] + i - 1
  BY <1>1, <1>3, <1>4
<1>6. QED
  BY <1>5, Zenon DEF p

(* ... and when its first is taken.                                        *)
LEMMA TailNext ==
  ASSUME NEW S, NEW q \in Seq(S), q # <<>>
  PROVE  /\ Tail(q) \in Seq(S) /\ Len(Tail(q)) = Len(q) - 1 /\ Len(q) \in Nat \ {0}
         /\ Head(q) = q[1] /\ q[1] \in S
         /\ \A i \in 1 .. Len(q) - 1 : Tail(q)[i] = q[i + 1]
OBVIOUS

-----------------------------------------------------------------------------
(* The ring.                                                               *)

(* A number below twice the size of the ring wraps at most once.           *)
LEMMA ModOnce ==
  ASSUME NEW n \in Nat \ {0}, NEW x \in 0 .. 2 * n - 1
  PROVE  x % n = IF x < n THEN x ELSE x - n
OBVIOUS

(* eventsAfter reads the slots in the order of the events.                 *)
LEMMA SlotsInOrder ==
  ASSUME HubTypeOK, RingInOrder, NEW i \in 1 .. Len(events)
  PROVE  /\ ((eventStart - 1 + i - 1) % Len(events)) + 1 = Slot(i)
         /\ Slot(i) \in 1 .. Len(events)
<1> DEFINE n == Len(events)
<1>1. n \in Nat \ {0} /\ i \in 1 .. n /\ eventStart \in 1 .. n
  BY DEF HubTypeOK, RingInOrder
<1>2. eventStart - 1 + i - 1 \in 0 .. 2 * n - 1
  BY <1>1
<1>3. (eventStart - 1 + i - 1) % n =
        IF eventStart - 1 + i - 1 < n THEN eventStart - 1 + i - 1 ELSE eventStart - 1 + i - 1 - n
  BY <1>1, <1>2, ModOnce, SMTT(30)
<1>4. QED
  BY <1>1, <1>3 DEF Slot

(* What a replay holds: all that is kept and follows the given event.      *)
LEMMA ReplayIsTheRest ==
  ASSUME HubTypeOK, RingInOrder, NEW after \in 0 .. nextSequence
  PROVE  LET from == IF after < droppedThrough THEN droppedThrough ELSE after
         IN EventsAfter(after) = [k \in 1 .. nextSequence - from |-> from + k]
<1> DEFINE n == Len(events)
           inOrder == [i \in 1 .. n |-> events[((eventStart - 1 + i - 1) % n) + 1]]
           kept == {i \in 1 .. n : inOrder[i] > after}
           Nth(k) == CHOOSE i \in kept : Cardinality({j \in kept : j <= i}) = k
           from == IF after < droppedThrough THEN droppedThrough ELSE after
           m == from - droppedThrough
<1>1. n \in Nat /\ droppedThrough \in Nat /\ nextSequence = droppedThrough + n /\ m \in 0 .. n
      /\ from = droppedThrough + m
  BY DEF HubTypeOK, RingInOrder
<1>2. \A i \in 1 .. n : inOrder[i] = droppedThrough + i
  BY SlotsInOrder DEF RingInOrder
<1> HIDE DEF n, inOrder
<1>3. kept = m + 1 .. n
  <2>1. \A i \in 1 .. n : droppedThrough + i > after <=> i > m
    BY <1>1
  <2>2. QED
    BY <1>1, <1>2, <2>1
<1> HIDE DEF kept, m, from
<1>4. \A lo, hi \in Int : lo <= hi + 1 => Cardinality(lo .. hi) = hi - lo + 1
  <2> SUFFICES ASSUME NEW lo \in Int, NEW hi \in Int, lo <= hi + 1
               PROVE  Cardinality(lo .. hi) = hi - lo + 1
    OBVIOUS
  <2>1. Cardinality(lo .. hi) = IF lo > hi THEN 0 ELSE hi - lo + 1
    BY FS_Interval
  <2>2. QED
    BY <2>1
<1>5. Cardinality(kept) = n - m
  <2>1. m + 1 \in Int /\ n \in Int /\ m + 1 <= n + 1 /\ n - (m + 1) + 1 = n - m
    BY <1>1
  <2>2. QED
    BY <1>3, <1>4, <2>1
<1> DEFINE UpTo(i) == {j \in kept : j <= i}
<1>6. \A i \in kept : Cardinality(UpTo(i)) = i - m
  <2> SUFFICES ASSUME NEW i \in kept PROVE Cardinality(UpTo(i)) = i - m
    OBVIOUS
  <2>1. UpTo(i) = m + 1 .. i /\ i \in Int /\ m + 1 \in Int /\ m + 1 <= i + 1 /\ i - (m + 1) + 1 = i - m
    BY <1>1, <1>3
  <2> HIDE DEF UpTo
  <2>2. QED
    BY <2>1, <1>4
<1> HIDE DEF UpTo
<1>7. \A k \in 1 .. n - m : Nth(k) = m + k /\ Nth(k) \in 1 .. n
  <2> SUFFICES ASSUME NEW k \in 1 .. n - m PROVE Nth(k) = m + k /\ Nth(k) \in 1 .. n
    OBVIOUS
  <2>1. m + k \in kept /\ m + k \in 1 .. n
    BY <1>1, <1>3
  <2>2. PICK i \in kept : i = m + k
    BY <2>1
  <2>3. Cardinality(UpTo(i)) = k
    BY <1>1, <1>6, <2>2
  <2>4. \A j \in kept : Cardinality(UpTo(j)) = k => j = i
    BY <1>1, <1>3, <1>6, <2>2
  <2>5. Nth(k) = i
    BY <2>3, <2>4, Zenon DEF UpTo
  <2>6. QED
    BY <2>1, <2>2, <2>5
<1> HIDE DEF Nth
<1>8. \A k \in 1 .. n - m : inOrder[Nth(k)] = from + k
  <2> SUFFICES ASSUME NEW k \in 1 .. n - m PROVE inOrder[Nth(k)] = from + k
    OBVIOUS
  <2>1. inOrder[Nth(k)] = droppedThrough + Nth(k)
    BY <1>2, <1>7
  <2>2. QED
    BY <1>1, <1>7, <2>1
<1>9. EventsAfter(after) = [k \in 1 .. Cardinality(kept) |-> inOrder[Nth(k)]]
  BY DEF EventsAfter, n, inOrder, kept, Nth
<1>10. n - m = nextSequence - from
  BY <1>1
<1>11. QED
  BY <1>5, <1>8, <1>9, <1>10 DEF from

(* ... and that it is a sequence.                                          *)
LEMMA ReplayFollows ==
  ASSUME HubTypeOK, RingInOrder, NEW after \in 0 .. nextSequence
  PROVE  LET from == IF after < droppedThrough THEN droppedThrough ELSE after
             q    == EventsAfter(after)
         IN /\ q \in Seq(1 .. MaxEvents)
            /\ Len(q) = nextSequence - from
            /\ \A k \in 1 .. Len(q) : q[k] = from + k
<1> DEFINE from == IF after < droppedThrough THEN droppedThrough ELSE after
           q == EventsAfter(after)
<1>1. from \in 0 .. nextSequence /\ nextSequence \in 0 .. MaxEvents
  BY DEF HubTypeOK, RingInOrder
<1>2. q = [k \in 1 .. nextSequence - from |-> from + k]
  BY ReplayIsTheRest
<1> HIDE DEF from, q
<1>3. nextSequence - from \in Nat /\ \A k \in 1 .. nextSequence - from : from + k \in 1 .. MaxEvents
  BY <1>1, HubAssumption
<1>4. q \in Seq(1 .. MaxEvents) /\ Len(q) = nextSequence - from
  <2>1. PICK m \in Nat : m = nextSequence - from
    BY <1>3
  <2>2. q = [k \in 1 .. m |-> q[k]] /\ \A k \in 1 .. m : q[k] \in 1 .. MaxEvents
    BY <1>2, <1>3, <2>1
  <2>3. q \in Seq(1 .. MaxEvents)
    <3>1. q \in [1 .. m -> 1 .. MaxEvents]
      BY <2>2
    <3>2. QED
      BY <3>1, SeqDef
  <2>4. DOMAIN q = 1 .. m
    BY <2>2
  <2>5. QED
    BY <2>1, <2>3, <2>4, LenProperties
<1>5. \A k \in 1 .. Len(q) : q[k] = from + k
  BY <1>2, <1>4
<1>6. QED
  BY <1>4, <1>5 DEF from, q

(* A new event is the latest in the ring; the oldest may be overwritten.    *)
LEMMA RetainKeepsOrder ==
  ASSUME HubTypeOK, RingInOrder, nextSequence < MaxEvents, nextSequence' = nextSequence + 1,
         Retain(nextSequence')
  PROVE  /\ RingInOrder'
         /\ events' \in Seq(1 .. MaxEvents) /\ Len(events') <= EventLimit
         /\ eventStart' \in 1 .. EventLimit
         /\ droppedThrough' \in droppedThrough .. nextSequence
<1> DEFINE n == Len(events)
           e == nextSequence + 1
<1>1. /\ n \in Nat /\ n <= EventLimit /\ eventStart \in 1 .. EventLimit /\ EventLimit \in Nat \ {0}
      /\ droppedThrough \in Nat /\ nextSequence \in Nat /\ e \in 1 .. MaxEvents
      /\ events \in Seq(1 .. MaxEvents)
  BY HubAssumption DEF HubTypeOK
<1>2. CASE n < EventLimit /\ events' = Append(events, e) /\ UNCHANGED <<eventStart, droppedThrough>>
  <2>1. eventStart = 1 /\ droppedThrough = 0 /\ nextSequence = n
    BY <1>1, <1>2 DEF RingInOrder
  <2>2. /\ events' \in Seq(1 .. MaxEvents) /\ Len(events') = n + 1
        /\ events'[n + 1] = e /\ \A i \in 1 .. n : events'[i] = events[i]
    BY <1>1, <1>2
  <2>3. \A i \in 1 .. n : events[i] = i
    <3> SUFFICES ASSUME NEW i \in 1 .. n PROVE events[i] = i
      OBVIOUS
    <3>1. events[Slot(i)] = droppedThrough + i
      BY DEF RingInOrder
    <3>2. Slot(i) = i
      BY <1>1, <2>1 DEF Slot
    <3>3. QED
      BY <2>1, <3>1, <3>2
  <2>4. \A i \in 1 .. n + 1 : events'[i] = i
    BY <1>1, <2>1, <2>2, <2>3
  <2>5. \A i \in 1 .. Len(events') : Slot(i)' = i
    BY <1>1, <1>2, <2>1, <2>2 DEF Slot
  <2>6. RingInOrder'
    BY <1>1, <1>2, <2>1, <2>2, <2>4, <2>5 DEF RingInOrder
  <2>7. QED
    BY <1>1, <1>2, <2>1, <2>2, <2>6
<1>3. CASE n = EventLimit /\ Overwrite(e)
  <2>1. eventStart \in 1 .. n /\ n \in Nat \ {0} /\ nextSequence = droppedThrough + n
    BY <1>1, <1>3 DEF RingInOrder
  <2>2. events[eventStart] = droppedThrough + 1
    <3>1. 1 \in 1 .. n /\ Slot(1) = eventStart
      BY <1>1, <2>1 DEF Slot
    <3>2. events[Slot(1)] = droppedThrough + 1
      BY <3>1 DEF RingInOrder
    <3>3. QED
      BY <3>1, <3>2
  <2>3. eventStart' = IF eventStart < n THEN eventStart + 1 ELSE 1
    BY <1>3, <2>1, ModOnce, SMTT(30) DEF Overwrite
  <2>4. /\ events' \in Seq(1 .. MaxEvents) /\ Len(events') = n
        /\ events'[eventStart] = e
        /\ \A j \in 1 .. n : j # eventStart => events'[j] = events[j]
    BY <1>1, <1>3, <2>1 DEF Overwrite
  <2>5. droppedThrough' = droppedThrough + 1
    BY <1>3, <2>2 DEF Overwrite
  <2>6. \A i \in 1 .. n : events'[Slot(i)'] = droppedThrough' + i
    <3> SUFFICES ASSUME NEW i \in 1 .. n PROVE events'[Slot(i)'] = droppedThrough' + i
      OBVIOUS
    <3>1. CASE i = n
      <4>1. Slot(i)' = eventStart
        BY <1>1, <2>1, <2>3, <2>4, <3>1 DEF Slot
      <4>2. events'[Slot(i)'] = e
        BY <2>4, <4>1
      <4>3. e = droppedThrough' + i
        BY <1>1, <2>1, <2>5, <3>1
      <4>4. QED
        BY <4>2, <4>3
    <3>2. CASE i < n
      <4>1. /\ Slot(i)' = Slot(i + 1) /\ Slot(i + 1) \in 1 .. n /\ Slot(i + 1) # eventStart
            /\ i + 1 \in 1 .. n
        BY <1>1, <2>1, <2>3, <2>4, <3>2 DEF Slot
      <4>2. events[Slot(i + 1)] = droppedThrough + (i + 1)
        BY <4>1 DEF RingInOrder
      <4>3. QED
        BY <1>1, <2>4, <2>5, <4>1, <4>2
    <3>3. QED
      BY <3>1, <3>2
  <2>7. RingInOrder'
    BY <1>1, <1>3, <2>1, <2>3, <2>4, <2>5, <2>6 DEF RingInOrder
  <2>8. QED
    BY <1>1, <1>3, <2>1, <2>3, <2>4, <2>5, <2>7
<1>4. QED
  BY <1>2, <1>3 DEF Retain

-----------------------------------------------------------------------------
(* The invariant.                                                          *)

(* The ring is empty and nobody listens.                                   *)
LEMMA HubInitial == HubInit => HubInv
<1> SUFFICES ASSUME HubInit PROVE HubInv
  OBVIOUS
<1>1. HubTypeOK
  <2>1. <<>> \in Seq(1 .. MaxEvents) /\ Len(<<>>) = 0 /\ Len(<<>>) <= 0
    OBVIOUS
  <2>2. 0 \in 0 .. MaxEvents /\ 0 \in 0 .. MaxBreaks /\ 1 \in 1 .. EventLimit /\ 0 <= EventLimit
    BY HubAssumption
  <2>3. QED
    BY <2>1, <2>2 DEF HubInit, HubTypeOK
<1>2. StreamsAreSound
  BY <1>1 DEF HubInit, StreamsAreSound, SubscribersAreOpen, ResetOnlyIfMissed
<1>3. RingInOrder
  BY DEF HubInit, RingInOrder
<1>4. ChannelsBelong
  BY DEF HubInit, ChannelsBelong
<1>5. ReadersFollow
  BY DEF HubInit, ReadersFollow
<1>6. QED
  BY <1>2, <1>3, <1>4, <1>5 DEF HubInv

(* Publishing: whoever can take the event gets it, and whoever cannot is no  *)
(* longer a subscriber.                                                    *)
LEMMA PublishKeeps ==
  ASSUME HubInv, Publish
  PROVE  HubInv'
<1> USE DEF HubInv, StreamsAreSound
<1>1. /\ stream = "open" /\ nextSequence < MaxEvents /\ nextSequence' = nextSequence + 1
      /\ Retain(nextSequence') /\ Sent(nextSequence') /\ DisconnectSlow
      /\ UNCHANGED <<stream, capacity, ended, conn, reset, last, reader, breaks>>
  BY DEF Publish, browsers
<1>2. /\ RingInOrder'
      /\ events' \in Seq(1 .. MaxEvents) /\ Len(events') <= EventLimit
      /\ eventStart' \in 1 .. EventLimit
      /\ droppedThrough' \in droppedThrough .. nextSequence
  BY <1>1, RetainKeepsOrder
<1>3. /\ nextSequence \in Nat /\ nextSequence' \in 1 .. MaxEvents /\ droppedThrough \in Nat
      /\ \A c \in Channels : queue[c] \in Seq(1 .. MaxEvents)
      /\ \A c \in Channels : capacity[c] \in Nat
  BY <1>1, HubAssumption DEF HubTypeOK, ChannelsBelong
<1>4. /\ DOMAIN queue' = Channels
      /\ \A c \in Channels : queue'[c] = IF c \in subscribers \ Slow THEN Append(queue[c], nextSequence')
                                          ELSE queue[c]
      /\ queue' = [c \in Channels |-> queue'[c]]
  BY <1>1 DEF Sent
<1>5. \A c \in Channels : /\ queue'[c] \in Seq(1 .. MaxEvents)
                          /\ Len(queue'[c]) <= capacity[c]
                          /\ \A i \in 1 .. Len(queue'[c]) : queue'[c][i] <= nextSequence'
  <2> SUFFICES ASSUME NEW c \in Channels
               PROVE  /\ queue'[c] \in Seq(1 .. MaxEvents)
                      /\ Len(queue'[c]) <= capacity[c]
                      /\ \A i \in 1 .. Len(queue'[c]) : queue'[c][i] <= nextSequence'
    OBVIOUS
  <2>1. \A i \in 1 .. Len(queue[c]) : queue[c][i] <= nextSequence /\ queue[c][i] \in Nat
    <3>1. \A i \in 1 .. Len(queue[c]) : queue[c][i] \in 1 .. MaxEvents
      BY <1>3, ElementOfSeq
    <3>2. QED
      BY <3>1 DEF ReadersFollow
  <2>2. CASE c \in subscribers \ Slow
    <3>1. queue'[c] = Append(queue[c], nextSequence') /\ Len(queue[c]) < capacity[c]
      BY <1>3, <1>4, <2>2 DEF Slow
    <3>2. queue[c] \in Seq(1 .. MaxEvents) /\ nextSequence' \in 1 .. MaxEvents
      BY <1>3
    <3>3. /\ queue'[c] \in Seq(1 .. MaxEvents) /\ Len(queue'[c]) = Len(queue[c]) + 1
          /\ Len(queue[c]) \in Nat /\ queue'[c][Len(queue[c]) + 1] = nextSequence'
          /\ \A i \in 1 .. Len(queue[c]) : queue'[c][i] = queue[c][i]
      BY <3>1, <3>2, AppendFacts
    <3>4. Len(queue'[c]) <= capacity[c]
      BY <1>3, <3>1, <3>3
    <3>5. ASSUME NEW i \in 1 .. Len(queue'[c]) PROVE queue'[c][i] <= nextSequence'
      <4>1. CASE i \in 1 .. Len(queue[c])
        BY <1>1, <1>3, <2>1, <3>3, <4>1
      <4>2. CASE i = Len(queue[c]) + 1
        BY <1>3, <3>3, <4>2
      <4>3. QED
        BY <3>3, <4>1, <4>2
    <3>6. QED
      BY <3>3, <3>4, <3>5
  <2>3. CASE c \notin subscribers \ Slow
    BY <1>1, <1>3, <1>4, <2>1, <2>3 DEF HubTypeOK
  <2>4. QED
    BY <2>2, <2>3
<1>6. HubTypeOK'
  <2>1. droppedThrough' \in 0 .. MaxEvents
    BY <1>1, <1>2, <1>3, HubAssumption
  <2>2. subscribers' \subseteq Channels /\ closed' \subseteq Channels
    BY <1>1 DEF DisconnectSlow, Slow, HubTypeOK
  <2>3. queue' \in [Channels -> Seq(1 .. MaxEvents)]
    BY <1>4, <1>5
  <2>4. QED
    BY <1>1, <1>2, <1>3, <1>5, <2>1, <2>2, <2>3 DEF HubTypeOK
<1>7. SubscribersAreOpen' /\ ResetOnlyIfMissed'
  <2>1. SubscribersAreOpen'
    BY <1>1 DEF SubscribersAreOpen, DisconnectSlow
  <2>2. ResetOnlyIfMissed'
    BY <1>1, <1>2, <1>3 DEF ResetOnlyIfMissed, HubTypeOK
  <2>3. QED
    BY <2>1, <2>2
<1>8. ChannelsBelong'
  BY <1>1 DEF ChannelsBelong, DisconnectSlow, Slow
<1>9. ReadersFollow'
  <2>1. \A r \in Readers : last'[r] <= nextSequence'
    BY <1>1, <1>3 DEF ReadersFollow, HubTypeOK
  <2>2. ASSUME NEW r \in Readers, conn[r] # NoChannel, r \notin reset
        PROVE  QueueFollows(r)'
    <3> DEFINE c == conn[r]
               q == queue[c]
    <3>1. c \in Channels /\ QueueFollows(r) /\ last[r] \in Nat /\ q \in Seq(1 .. MaxEvents)
      BY <1>3, <2>2 DEF HubTypeOK, ReadersFollow
    <3>2. CASE c \in subscribers \ Slow
      <4>1. queue'[c] = Append(q, nextSequence + 1)
        BY <1>1, <1>4, <3>1, <3>2
      <4>2. /\ \A i \in 1 .. Len(q) : q[i] = q[1] + i - 1
            /\ q # <<>> => q[1] = last[r] + 1 \/ (last[r] = 0 /\ q[1] <= droppedThrough + 1)
            /\ nextSequence = IF q = <<>> THEN last[r] ELSE q[1] + Len(q) - 1
        BY <3>1, <3>2 DEF QueueFollows
      <4>3. q \in Seq(Nat) /\ nextSequence + 1 \in Nat /\ queue'[c] # <<>>
            /\ Len(queue'[c]) = Len(q) + 1 /\ queue'[c][Len(q) + 1] = nextSequence + 1
        <5>1. q \in Seq(Nat) /\ nextSequence + 1 \in Nat
          <6>1. 1 .. MaxEvents \subseteq Nat
            BY HubAssumption
          <6>2. q \in Seq(Nat)
            BY <3>1, <6>1, SeqMonotonic
          <6>3. QED
            BY <1>3, <6>2
        <5>2. QED
          BY <4>1, <5>1, AppendFacts
      <4>4. CASE q = <<>>
        <5>1. Len(queue'[c]) = 1 /\ queue'[c][1] = last[r] + 1
          BY <4>2, <4>3, <4>4
        <5>2. nextSequence' = queue'[c][1] + Len(queue'[c]) - 1
          BY <1>1, <3>1, <4>2, <4>4, <5>1
        <5>3. \A i \in 1 .. Len(queue'[c]) : queue'[c][i] = queue'[c][1] + i - 1
          BY <3>1, <5>1
        <5>4. QED
          BY <1>1, <4>3, <5>1, <5>2, <5>3 DEF QueueFollows
      <4>5. CASE q # <<>>
        <5> HIDE DEF q
        <5>1. 1 \in 1 .. Len(q) /\ q[1] \in Nat /\ Len(q) \in Nat
          BY <4>3, <4>5, TailNext
        <5>2. nextSequence + 1 = q[1] + Len(q)
          BY <1>3, <4>2, <4>5, <5>1
        <5>3. /\ queue'[c][1] = q[1]
              /\ nextSequence + 1 = queue'[c][1] + Len(queue'[c]) - 1
              /\ \A i \in 1 .. Len(queue'[c]) : queue'[c][i] = queue'[c][1] + i - 1
          <6>1. /\ Append(q, nextSequence + 1)[1] = q[1]
                /\ nextSequence + 1 = Append(q, nextSequence + 1)[1] + Len(Append(q, nextSequence + 1)) - 1
                /\ \A i \in 1 .. Len(Append(q, nextSequence + 1)) :
                     Append(q, nextSequence + 1)[i] = Append(q, nextSequence + 1)[1] + i - 1
            BY <4>2, <4>3, <4>5, <5>2, AppendNext
          <6>2. QED
            BY <4>1, <6>1, Zenon
        <5>4. queue'[c][1] = last[r] + 1 \/ (last[r] = 0 /\ queue'[c][1] <= droppedThrough' + 1)
          <6>1. droppedThrough \in Nat /\ droppedThrough' \in Nat /\ droppedThrough <= droppedThrough'
            BY <1>2, <1>3
          <6>2. q[1] = last[r] + 1 \/ (last[r] = 0 /\ q[1] <= droppedThrough + 1)
            BY <4>2, <4>5
          <6>3. q[1] = last[r] + 1 \/ (last[r] = 0 /\ q[1] <= droppedThrough' + 1)
            BY <5>1, <6>1, <6>2
          <6>4. QED
            BY <5>3, <6>3
        <5>5. QED
          BY <1>1, <4>3, <5>3, <5>4 DEF QueueFollows
      <4>6. QED
        BY <4>4, <4>5
    <3>3. CASE c \notin subscribers \ Slow
      <4>1. queue'[c] = q /\ c \notin subscribers'
        BY <1>1, <1>4, <3>1, <3>3 DEF DisconnectSlow
      <4>2. q # <<>> => q[1] \in Nat
        <5>1. q # <<>> => q[1] \in 1 .. MaxEvents
          BY <3>1, TailNext
        <5>2. QED
          BY <5>1
      <4>3. QED
        BY <1>1, <1>2, <1>3, <3>1, <4>1, <4>2 DEF QueueFollows
    <3>4. QED
      BY <3>2, <3>3
  <2>3. QED
    BY <1>1, <1>5, <2>1, <2>2 DEF ReadersFollow
<1>10. QED
  BY <1>2, <1>6, <1>7, <1>8, <1>9
(* What a step leaves of a reader it does not concern.                     *)
LEMMA FollowsStays ==
  ASSUME NEW r \in Readers, QueueFollows(r), UNCHANGED <<nextSequence, droppedThrough>>,
         conn'[r] = conn[r], last'[r] = last[r], queue'[conn[r]] = queue[conn[r]],
         conn[r] \in subscribers' => conn[r] \in subscribers
  PROVE  QueueFollows(r)'
BY DEF QueueFollows

(* The run completes, its stream is forgotten, or a request has ended: the   *)
(* channels of those that are no longer subscribers stay as they are.       *)
LEMMA CloseKeeps ==
  ASSUME HubInv,
         \/ Complete
         \/ Evict
         \/ \E c \in Channels : Unsubscribe(c)
  PROVE  HubInv'
<1> USE DEF HubInv, StreamsAreSound
<1>1. /\ UNCHANGED <<ring, queue, capacity, browsers>>
      /\ stream' \in {"open", "done", "evicted"} /\ (stream' # "open" => subscribers' = {})
      /\ subscribers' \subseteq subscribers
      /\ closed' \subseteq closed \cup subscribers /\ closed' \cap subscribers' = {}
  BY DEF Complete, Evict, Unsubscribe, subs, HubTypeOK, SubscribersAreOpen
<1>2. UNCHANGED <<events, eventStart, nextSequence, droppedThrough, queue, capacity,
                  ended, conn, reset, last, reader, breaks>>
  BY <1>1 DEF ring, browsers
<1>3. HubTypeOK'
  BY <1>1, <1>2 DEF HubTypeOK
<1>4. SubscribersAreOpen' /\ ResetOnlyIfMissed'
  BY <1>1, <1>2 DEF SubscribersAreOpen, ResetOnlyIfMissed
<1>5. RingInOrder'
  BY <1>2 DEF RingInOrder, Slot
<1>6. ChannelsBelong'
  BY <1>1, <1>2 DEF ChannelsBelong
<1>7. ReadersFollow'
  <2>1. ASSUME NEW r \in Readers, conn[r] # NoChannel, r \notin reset PROVE QueueFollows(r)'
    BY <1>1, <1>2, <2>1, FollowsStays DEF ReadersFollow
  <2>2. QED
    BY <1>2, <2>1 DEF ReadersFollow
<1>8. QED
  BY <1>3, <1>4, <1>5, <1>6, <1>7

(* A reader that comes back is sent what follows its last event, unless some *)
(* of that is gone and it is told so.                                      *)
LEMMA SubscribeKeeps ==
  ASSUME HubInv, NEW r \in Readers, NEW c \in Channels, Subscribe(r, c)
  PROVE  HubInv'
<1> USE DEF HubInv, StreamsAreSound
<1> DEFINE q == EventsAfter(last[r])
           from == IF last[r] < droppedThrough THEN droppedThrough ELSE last[r]
<1>1. /\ reader[r] = "reading" /\ conn[r] = NoChannel /\ stream # "evicted" /\ capacity[c] = 0
      /\ queue' = [queue EXCEPT ![c] = q]
      /\ capacity' = [capacity EXCEPT ![c] = Len(q) + SubscriberBuffer]
      /\ conn' = [conn EXCEPT ![r] = c]
      /\ reset' = IF Truncated(last[r]) THEN reset \cup {r} ELSE reset
      /\ UNCHANGED <<events, eventStart, nextSequence, droppedThrough, stream, ended, last, reader, breaks>>
  BY DEF Subscribe, ring, NewChannel
<1>2. \/ stream = "done" /\ closed' = closed \cup {c} /\ subscribers' = subscribers
      \/ stream = "open" /\ subscribers' = subscribers \cup {c} /\ closed' = closed
  BY <1>1 DEF Subscribe, HubTypeOK
<1>3. last[r] \in 0 .. nextSequence /\ nextSequence \in Nat /\ droppedThrough \in Nat
      /\ \A s \in Readers : last[s] \in Nat
  BY HubAssumption DEF HubTypeOK, ReadersFollow
<1>4. /\ q \in Seq(1 .. MaxEvents) /\ Len(q) = nextSequence - from
      /\ \A k \in 1 .. Len(q) : q[k] = from + k
  BY <1>3, ReplayFollows
<1>5. from \in Nat /\ Len(q) \in Nat
  BY <1>3, <1>4
<1>6. Truncated(last[r]) <=> last[r] > 0 /\ last[r] < droppedThrough
  BY DEF Truncated
<1>7. Len(q) = 0 => from = last[r]
  BY <1>3, <1>4, HubAssumption DEF RingInOrder, HubTypeOK
<1>8. last[r] > 0 /\ ~(last[r] < droppedThrough) => from = last[r]
  OBVIOUS
<1>9. last[r] = 0 => from <= droppedThrough
  BY <1>3
<1> HIDE DEF q, from
<1>10. Len(q) + SubscriberBuffer \in Nat \ {0} /\ Len(q) <= Len(q) + SubscriberBuffer
  BY <1>5, HubAssumption
<1>11. /\ queue' \in [Channels -> Seq(1 .. MaxEvents)] /\ queue'[c] = q
       /\ \A d \in Channels : d # c => queue'[d] = queue[d]
       /\ capacity' \in [Channels -> Nat] /\ capacity'[c] = Len(q) + SubscriberBuffer
       /\ \A d \in Channels : d # c => capacity'[d] = capacity[d]
  BY <1>1, <1>4, <1>10 DEF HubTypeOK, ChannelsBelong
<1>12. /\ conn' \in [Readers -> Channels \cup {NoChannel}] /\ conn'[r] = c
       /\ \A s \in Readers : s # r => conn'[s] = conn[s] /\ conn[s] # c
       /\ c # NoChannel
  BY <1>1, HubAssumption DEF HubTypeOK, ChannelsBelong
<1>13. HubTypeOK'
  <2>1. \A d \in Channels : Len(queue'[d]) <= capacity'[d]
    BY <1>10, <1>11 DEF HubTypeOK
  <2>2. subscribers' \subseteq Channels /\ closed' \subseteq Channels /\ reset' \subseteq Readers
    BY <1>1, <1>2 DEF HubTypeOK
  <2>3. QED
    BY <1>1, <1>11, <1>12, <2>1, <2>2 DEF HubTypeOK
<1>14. SubscribersAreOpen' /\ ResetOnlyIfMissed'
  BY <1>1, <1>2, <1>6 DEF SubscribersAreOpen, ResetOnlyIfMissed, ChannelsBelong
<1>15. RingInOrder'
  BY <1>1 DEF RingInOrder, Slot
<1>16. ChannelsBelong'
  <2>1. \A d \in Channels : capacity'[d] = 0 => d \notin subscribers' /\ d \notin closed'
    BY <1>2, <1>10, <1>11 DEF ChannelsBelong
  <2>2. \A s \in Readers : conn'[s] # NoChannel => capacity'[conn'[s]] # 0
    <3> SUFFICES ASSUME NEW s \in Readers, conn'[s] # NoChannel PROVE capacity'[conn'[s]] # 0
      OBVIOUS
    <3>1. CASE s = r
      BY <1>10, <1>11, <1>12, <3>1
    <3>2. CASE s # r
      <4>1. conn'[s] = conn[s] /\ conn[s] # c /\ conn[s] \in Channels
        BY <1>12, <3>2 DEF HubTypeOK
      <4>2. QED
        BY <1>11, <4>1 DEF ChannelsBelong
    <3>3. QED
      BY <3>1, <3>2
  <2>3. \A s, t \in Readers : s # t /\ conn'[s] # NoChannel => conn'[s] # conn'[t]
    BY <1>12 DEF ChannelsBelong
  <2>4. \A s \in reset' : conn'[s] # NoChannel
    BY <1>1, <1>12 DEF ChannelsBelong, HubTypeOK
  <2>5. QED
    BY <1>11, <2>1, <2>2, <2>3, <2>4 DEF ChannelsBelong
<1>17. ReadersFollow'
  <2>1. ASSUME NEW d \in Channels, NEW i \in 1 .. Len(queue'[d]) PROVE queue'[d][i] <= nextSequence
    <3>1. CASE d = c
      BY <1>3, <1>4, <1>5, <1>11, <2>1, <3>1
    <3>2. CASE d # c
      BY <1>11, <2>1, <3>2 DEF ReadersFollow
    <3>3. QED
      BY <3>1, <3>2
  <2>2. ASSUME r \notin reset' PROVE QueueFollows(r)'
    <3>1. ~(last[r] > 0 /\ last[r] < droppedThrough)
      BY <1>1, <1>6, <2>2
    <3>2. CASE q = <<>>
      <4>1. Len(q) = 0 /\ from = last[r] /\ nextSequence = last[r]
        BY <1>3, <1>4, <1>5, <1>7, <3>2
      <4>2. QED
        BY <1>1, <1>11, <1>12, <3>2, <4>1 DEF QueueFollows
    <3>3. CASE q # <<>>
      <4>1. 1 \in 1 .. Len(q)
        BY <1>4, <3>3, TailNext
      <4>2. q[1] = from + 1 /\ \A i \in 1 .. Len(q) : q[i] = q[1] + i - 1
        BY <1>4, <1>5, <4>1
      <4>3. nextSequence = q[1] + Len(q) - 1
        BY <1>3, <1>4, <1>5, <4>2
      <4>4. q[1] = last[r] + 1 \/ (last[r] = 0 /\ q[1] <= droppedThrough + 1)
        BY <1>3, <1>5, <1>8, <1>9, <3>1, <4>2
      <4>5. QED
        BY <1>1, <1>11, <1>12, <3>3, <4>2, <4>3, <4>4 DEF QueueFollows
    <3>4. QED
      BY <3>2, <3>3
  <2>3. ASSUME NEW s \in Readers, s # r, conn[s] # NoChannel, s \notin reset PROVE QueueFollows(s)'
    <3>1. QueueFollows(s) /\ conn[s] \in Channels
      BY <2>3 DEF ReadersFollow, HubTypeOK
    <3>2. conn[s] \in subscribers' => conn[s] \in subscribers
      BY <1>2, <1>12, <2>3
    <3>3. QED
      BY <1>1, <1>11, <1>12, <2>3, <3>1, <3>2, FollowsStays
  <2>4. QED
    BY <1>1, <1>12, <2>1, <2>2, <2>3 DEF ReadersFollow
<1>18. QED
  BY <1>13, <1>14, <1>15, <1>16, <1>17

(* A connection that ends, for whichever reason, or is refused: what was on  *)
(* its way is lost, and the other readers see nothing of it.               *)
LEMMA HangupKeeps ==
  ASSUME HubInv, NEW r \in Readers,
         SubscribeGone(r) \/ ReceiveReset(r) \/ StreamEnds(r) \/ ConnectionBreaks(r)
  PROVE  HubInv'
<1> USE DEF HubInv, StreamsAreSound
<1>1. UNCHANGED <<events, eventStart, nextSequence, droppedThrough, stream,
                  subscribers, queue, capacity, closed>>
  BY DEF SubscribeGone, ReceiveReset, StreamEnds, ConnectionBreaks, ring, subs
<1>2. 0 \in 0 .. MaxEvents /\ nextSequence \in Nat /\ \A s \in Readers : last[s] \in 0 .. MaxEvents
  BY HubAssumption DEF HubTypeOK
<1>3. /\ conn' \in [Readers -> Channels \cup {NoChannel}] /\ conn'[r] = NoChannel
      /\ \A s \in Readers : s # r => conn'[s] = conn[s]
  BY DEF SubscribeGone, ReceiveReset, StreamEnds, ConnectionBreaks, Hangup, HubTypeOK
<1>4. reset' = reset \ {r}
  BY DEF SubscribeGone, ReceiveReset, StreamEnds, ConnectionBreaks, ChannelsBelong
<1>5. /\ last' \in [Readers -> 0 .. MaxEvents] /\ last'[r] \in {0, last[r]}
      /\ \A s \in Readers : s # r => last'[s] = last[s]
  BY <1>2 DEF SubscribeGone, ReceiveReset, StreamEnds, ConnectionBreaks, HubTypeOK
<1>6. HubTypeOK'
  <2>1. reader' \in [Readers -> {"reading", "finished", "gone"}]
    BY DEF SubscribeGone, ReceiveReset, StreamEnds, ConnectionBreaks, HubTypeOK
  <2>2. breaks' \in 0 .. MaxBreaks
    BY HubAssumption DEF SubscribeGone, ReceiveReset, StreamEnds, ConnectionBreaks, HubTypeOK
  <2>3. ended' \subseteq Channels
    BY DEF SubscribeGone, ReceiveReset, StreamEnds, ConnectionBreaks, Hangup, HubTypeOK, ChannelsBelong
  <2>4. QED
    BY <1>1, <1>3, <1>4, <1>5, <2>1, <2>2, <2>3 DEF HubTypeOK
<1>7. SubscribersAreOpen' /\ ResetOnlyIfMissed'
  BY <1>1, <1>4, <1>5 DEF SubscribersAreOpen, ResetOnlyIfMissed
<1>8. RingInOrder'
  BY <1>1 DEF RingInOrder, Slot
<1>9. ChannelsBelong'
  <2>1. \A s \in Readers : conn'[s] # NoChannel => capacity'[conn'[s]] # 0
    BY <1>1, <1>3 DEF ChannelsBelong
  <2>2. \A s, t \in Readers : s # t /\ conn'[s] # NoChannel => conn'[s] # conn'[t]
    BY <1>3 DEF ChannelsBelong
  <2>3. \A s \in reset' : conn'[s] # NoChannel
    BY <1>3, <1>4 DEF ChannelsBelong, HubTypeOK
  <2>4. QED
    BY <1>1, <2>1, <2>2, <2>3 DEF ChannelsBelong
<1>10. ReadersFollow'
  <2>1. \A s \in Readers : last'[s] <= nextSequence'
    BY <1>1, <1>2, <1>5 DEF ReadersFollow
  <2>2. ASSUME NEW s \in Readers, conn'[s] # NoChannel, s \notin reset' PROVE QueueFollows(s)'
    BY <1>1, <1>3, <1>4, <1>5, <2>2, FollowsStays DEF ReadersFollow
  <2>3. QED
    BY <1>1, <2>1, <2>2 DEF ReadersFollow
<1>11. QED
  BY <1>6, <1>7, <1>8, <1>9, <1>10

(* Reading the next event, which may be the last one.                      *)
LEMMA ReceiveKeeps ==
  ASSUME HubInv, NEW r \in Readers, Receive(r)
  PROVE  HubInv'
<1> USE DEF HubInv, StreamsAreSound
<1>1. PICK c \in Channels : c = conn[r] /\ queue[c] \in Seq(1 .. MaxEvents) /\ queue[c] # <<>>
  BY DEF Receive, HubTypeOK
<1>2. PICK q \in Seq(1 .. MaxEvents) : q = queue[c]
  BY <1>1
<1>3. /\ r \notin reset /\ c # NoChannel /\ q # <<>>
      /\ queue' = [queue EXCEPT ![c] = Tail(q)]
      /\ last' = [last EXCEPT ![r] = Head(q)]
      /\ UNCHANGED <<events, eventStart, nextSequence, droppedThrough, stream,
                      subscribers, capacity, closed, reset, breaks>>
  BY <1>1, <1>2 DEF Receive, ring
<1>4. /\ Tail(q) \in Seq(1 .. MaxEvents) /\ Len(Tail(q)) = Len(q) - 1 /\ Len(q) \in Nat \ {0}
      /\ Head(q) = q[1] /\ q[1] \in 1 .. MaxEvents
      /\ \A i \in 1 .. Len(q) - 1 : Tail(q)[i] = q[i + 1]
  BY <1>3, TailNext
<1>5. PICK t \in Seq(1 .. MaxEvents) : t = Tail(q)
  BY <1>4
<1>6. /\ queue' \in [Channels -> Seq(1 .. MaxEvents)] /\ queue'[c] = t
      /\ \A d \in Channels : d # c => queue'[d] = queue[d]
  BY <1>3, <1>4, <1>5 DEF HubTypeOK
<1>7. /\ last' \in [Readers -> 0 .. MaxEvents] /\ last'[r] = q[1]
      /\ \A s \in Readers : s # r => last'[s] = last[s]
  <2>1. q[1] \in 0 .. MaxEvents
    BY <1>4
  <2>2. QED
    BY <1>3, <1>4, <2>1 DEF HubTypeOK
<1>8. /\ conn' \in [Readers -> Channels \cup {NoChannel}]
      /\ conn'[r] = c \/ conn'[r] = NoChannel
      /\ \A s \in Readers : s # r => conn'[s] = conn[s] /\ (conn[s] # NoChannel => conn[s] # c)
      /\ reader' \in [Readers -> {"reading", "finished", "gone"}]
      /\ ended' \subseteq Channels
  <2>1. \/ Hangup(r) /\ reader' = [reader EXCEPT ![r] = "finished"]
        \/ UNCHANGED <<ended, conn, reader>>
    BY DEF Receive
  <2>2. \A s \in Readers : s # r => (conn[s] # NoChannel => conn[s] # c)
    BY <1>1 DEF ChannelsBelong
  <2>3. CASE Hangup(r) /\ reader' = [reader EXCEPT ![r] = "finished"]
    BY <1>1, <2>2, <2>3 DEF Hangup, HubTypeOK
  <2>4. CASE UNCHANGED <<ended, conn, reader>>
    BY <1>1, <2>2, <2>4 DEF HubTypeOK
  <2>5. QED
    BY <2>1, <2>3, <2>4
<1>9. HubTypeOK'
  <2>1. Len(t) <= capacity[c]
    BY <1>2, <1>4, <1>5 DEF HubTypeOK, ChannelsBelong
  <2>2. \A d \in Channels : Len(queue'[d]) <= capacity'[d]
    BY <1>3, <1>6, <2>1 DEF HubTypeOK
  <2>3. QED
    BY <1>3, <1>6, <1>7, <1>8, <2>2 DEF HubTypeOK
<1>10. SubscribersAreOpen' /\ ResetOnlyIfMissed'
  BY <1>3, <1>7 DEF SubscribersAreOpen, ResetOnlyIfMissed
<1>11. RingInOrder'
  BY <1>3 DEF RingInOrder, Slot
<1>12. ChannelsBelong'
  <2>1. \A s \in Readers : conn'[s] # NoChannel => capacity'[conn'[s]] # 0
    BY <1>1, <1>3, <1>8 DEF ChannelsBelong
  <2>2. \A s, u \in Readers : s # u /\ conn'[s] # NoChannel => conn'[s] # conn'[u]
    BY <1>1, <1>3, <1>8 DEF ChannelsBelong
  <2>3. \A s \in reset' : conn'[s] # NoChannel
    BY <1>3, <1>8 DEF ChannelsBelong, HubTypeOK
  <2>4. QED
    BY <1>3, <2>1, <2>2, <2>3 DEF ChannelsBelong
<1>13. /\ \A i \in 1 .. Len(q) : q[i] = q[1] + i - 1 /\ q[i] <= nextSequence
       /\ c \in subscribers => nextSequence = q[1] + Len(q) - 1
  BY <1>1, <1>2, <1>3 DEF ReadersFollow, QueueFollows
<1>14. Len(t) = Len(q) - 1 /\ \A i \in 1 .. Len(t) : t[i] = q[1] + i
  <2>1. Len(t) = Len(q) - 1 /\ \A i \in 1 .. Len(t) : t[i] = q[i + 1] /\ i + 1 \in 1 .. Len(q)
    BY <1>4, <1>5
  <2>2. \A i \in 1 .. Len(t) : t[i] = q[1] + (i + 1) - 1
    BY <1>13, <2>1
  <2>3. QED
    BY <1>4, <2>1, <2>2
<1>15. ReadersFollow'
  <2>1. \A s \in Readers : last'[s] <= nextSequence
    <3>1. q[1] <= nextSequence
      BY <1>4, <1>13
    <3>2. QED
      BY <1>7, <3>1 DEF ReadersFollow
  <2>2. ASSUME NEW d \in Channels, NEW i \in 1 .. Len(queue'[d]) PROVE queue'[d][i] <= nextSequence
    <3>1. CASE d = c
      <4>1. i \in 1 .. Len(t) /\ queue'[d][i] = t[i]
        BY <1>6, <2>2, <3>1
      <4>2. t[i] = q[i + 1] /\ i + 1 \in 1 .. Len(q)
        BY <1>4, <1>5, <1>14, <4>1
      <4>3. QED
        BY <1>13, <4>1, <4>2
    <3>2. CASE d # c
      BY <1>6, <2>2, <3>2 DEF ReadersFollow
    <3>3. QED
      BY <3>1, <3>2
  <2>3. ASSUME conn'[r] = c PROVE QueueFollows(r)'
    <3>1. CASE t = <<>>
      <4>1. Len(t) = 0 /\ Len(q) = 1
        <5>1. Len(t) = 0
          BY <3>1
        <5>2. Len(t) = Len(q) - 1 /\ Len(q) \in Nat
          BY <1>4, <1>14, Zenon
        <5>3. QED
          BY <5>1, <5>2
      <4>2. c \in subscribers => nextSequence = q[1]
        BY <1>4, <1>13, <4>1
      <4>3. QED
        BY <1>3, <1>6, <1>7, <2>3, <3>1, <4>1, <4>2 DEF QueueFollows
    <3>2. CASE t # <<>>
      <4>1. 1 \in 1 .. Len(t) /\ t[1] = q[1] + 1
        BY <1>14, <3>2, TailNext
      <4>2. \A i \in 1 .. Len(t) : t[i] = t[1] + i - 1
        BY <1>4, <1>14, <4>1
      <4>3. c \in subscribers => nextSequence = t[1] + Len(t) - 1
        BY <1>4, <1>13, <1>14, <4>1
      <4>4. QED
        BY <1>3, <1>6, <1>7, <2>3, <3>2, <4>1, <4>2, <4>3 DEF QueueFollows
    <3>3. QED
      BY <3>1, <3>2
  <2>4. ASSUME NEW s \in Readers, s # r, conn[s] # NoChannel, s \notin reset PROVE QueueFollows(s)'
    <3>1. QueueFollows(s) /\ conn[s] \in Channels
      BY <2>4 DEF ReadersFollow, HubTypeOK
    <3>2. QED
      BY <1>3, <1>6, <1>7, <1>8, <2>4, <3>1, FollowsStays
  <2>5. QED
    BY <1>3, <1>8, <2>1, <2>2, <2>3, <2>4 DEF ReadersFollow
<1>16. QED
  BY <1>9, <1>10, <1>11, <1>12, <1>15

(* The hub's invariant, in one step.                                       *)
LEMMA HubInvIsInductive == HubInv /\ [HubNext]_hubVars => HubInv'
<1> SUFFICES ASSUME HubInv, [HubNext]_hubVars PROVE HubInv'
  OBVIOUS
<1>1. CASE Publish
  BY <1>1, PublishKeeps
<1>2. CASE Complete \/ Evict \/ \E c \in Channels : Unsubscribe(c)
  BY <1>2, CloseKeeps
<1>3. ASSUME NEW r \in Readers, ReaderStep(r) \/ ConnectionBreaks(r) PROVE HubInv'
  BY <1>3, SubscribeKeeps, HangupKeeps, ReceiveKeeps DEF ReaderStep
<1>4. CASE UNCHANGED hubVars
  BY <1>4 DEF hubVars, ring, subs, browsers, HubInv, StreamsAreSound, HubTypeOK,
       SubscribersAreOpen, ResetOnlyIfMissed, RingInOrder, Slot, ChannelsBelong, ReadersFollow,
       QueueFollows
<1>5. QED
  BY <1>1, <1>2, <1>3, <1>4 DEF HubNext

(* The ring, the channels and the readers agree in every reachable state.   *)
THEOREM HubInvariant == HubSpec => []HubInv
<1>1. QED
  BY HubInitial, HubInvIsInductive, PTL DEF HubSpec

(* No event is sent on a closed channel and none is closed twice, whichever  *)
(* of publishing, completing and unsubscribing comes first; a reader is told *)
(* to start over only if an event it has not read was overwritten           *)
(* (hub.go, publish, complete and SubscribeReplay).                        *)
THEOREM SoundStreams == HubSpec => []StreamsAreSound
<1>1. HubInv => StreamsAreSound
  BY DEF HubInv
<1>2. QED
  BY <1>1, HubInvariant, PTL

-----------------------------------------------------------------------------
(* The refinement.                                                         *)

(* Every step of the hub is a step of the log, or none of its concern.     *)
LEMMA LogStep ==
  ASSUME HubInv, [HubNext]_hubVars
  PROVE  [Log!Next]_Log!vars
<1> USE DEF HubInv, StreamsAreSound
<1>1. CASE Publish
  <2>1. droppedThrough' \in droppedThrough .. nextSequence
    BY <1>1, RetainKeepsOrder DEF Publish
  <2>2. QED
    BY <1>1, <2>1 DEF Publish, browsers, Log!Publish, Log!Next
<1>2. ASSUME NEW r \in Readers, Receive(r) PROVE Log!Next
  <2>1. PICK c \in Channels : c = conn[r] /\ queue[c] \in Seq(1 .. MaxEvents) /\ queue[c] # <<>>
    BY <1>2 DEF Receive, HubTypeOK
  <2>2. PICK q \in Seq(1 .. MaxEvents) : q = queue[c]
    BY <2>1
  <2>3. 1 \in 1 .. Len(q) /\ Head(q) = q[1] /\ q[1] \in 1 .. MaxEvents
    <3>1. Len(q) \in Nat \ {0} /\ Head(q) = q[1] /\ q[1] \in 1 .. MaxEvents
      BY <2>1, <2>2, TailNext
    <3>2. QED
      BY <3>1
  <2>4. last' = [last EXCEPT ![r] = q[1]] /\ UNCHANGED <<nextSequence, droppedThrough>>
    BY <1>2, <2>1, <2>2, <2>3 DEF Receive, ring
  <2>5. /\ q[1] <= nextSequence
        /\ q[1] = last[r] + 1 \/ (last[r] = 0 /\ q[1] <= droppedThrough + 1)
    BY <1>2, <2>1, <2>2, <2>3 DEF Receive, ReadersFollow, QueueFollows
  <2>6. nextSequence \in Nat /\ last[r] \in Nat /\ droppedThrough \in Nat
    BY HubAssumption DEF HubTypeOK
  <2>7. CASE q[1] = last[r] + 1
    <3>1. last[r] < nextSequence /\ last' = [last EXCEPT ![r] = last[r] + 1]
      BY <2>4, <2>5, <2>6, <2>7
    <3>2. Log!Read(r)
      BY <2>4, <3>1 DEF Log!Read
    <3>3. QED
      BY <3>2 DEF Log!Next
  <2>8. CASE last[r] = 0 /\ q[1] <= droppedThrough + 1
    <3>1. q[1] \in 1 .. droppedThrough + 1
      BY <2>3, <2>6, <2>8
    <3>2. Log!Join(r)
      BY <2>4, <2>5, <2>8, <3>1 DEF Log!Join
    <3>3. QED
      BY <3>2 DEF Log!Next
  <2>9. QED
    BY <2>5, <2>7, <2>8
<1>3. ASSUME NEW r \in Readers, ReceiveReset(r) PROVE Log!Next
  <2>1. last[r] \in 1 .. droppedThrough - 1
    BY <1>3, HubAssumption DEF ReceiveReset, ResetOnlyIfMissed, HubTypeOK
  <2>2. QED
    BY <1>3, <2>1 DEF ReceiveReset, ring, Log!StartOver, Log!Next
<1>4. CASE \/ Complete \/ Evict
           \/ \E c \in Channels : Unsubscribe(c)
           \/ UNCHANGED hubVars
  BY <1>4 DEF Complete, Evict, Unsubscribe, hubVars, ring, browsers, Log!vars
<1>5. ASSUME NEW r \in Readers,
             \/ \E c \in Channels : Subscribe(r, c)
             \/ SubscribeGone(r) \/ StreamEnds(r) \/ ConnectionBreaks(r)
      PROVE  UNCHANGED Log!vars
  BY <1>5 DEF Subscribe, SubscribeGone, StreamEnds, ConnectionBreaks, ring, Log!vars
<1>6. QED
  BY <1>1, <1>2, <1>3, <1>4, <1>5 DEF HubNext, ReaderStep

(* The hub implements the event log: with its ring, its full buffers and its *)
(* reconnecting browsers, no reader skips, repeats or reorders an event      *)
(* unless it is told to start over because one is gone.                    *)
THEOREM HubImplementsLog == HubSpec => IsEventLog
<1>1. HubInit => Log!Init
  BY DEF HubInit, Log!Init
<1>2. HubInv /\ [HubNext]_hubVars => [Log!Next]_Log!vars
  BY LogStep
<1>3. QED
  BY <1>1, <1>2, HubInvariant, PTL DEF HubSpec, IsEventLog, Log!Spec

=============================================================================
