------------------------------ MODULE EventHub ------------------------------
(***************************************************************************)
(* The event stream of one run: internal/engine/hub.go, with the browsers    *)
(* that read it over server-sent events (internal/httpapi/runs.go, streamRun; *)
(* web/src/app/chat/chat.component.ts, attachStream).                       *)
(*                                                                         *)
(* The hub's methods hold its mutex and are one step each.  An event is its  *)
(* sequence number.  The channel of a subscription and what is on its way to  *)
(* the browser are one queue: both are lost when the connection breaks, and  *)
(* the browser then asks for what follows the last event it has received.    *)
(***************************************************************************)
EXTENDS Integers, Sequences, FiniteSets

CONSTANTS
  Readers,           \* browsers
  MaxChannels,       \* bound on the number of subscriptions
  NoChannel,         \* not connected
  MaxEvents,         \* bound on the number of events published
  EventLimit,        \* maxRetainedStreamEvents
  SubscriberBuffer,  \* streamSubscriberBuffer
  MaxBreaks          \* bound on the number of broken connections

Channels == 1 .. MaxChannels

ASSUME HubAssumption ==
  /\ NoChannel \notin Channels
  /\ MaxEvents \in Nat /\ MaxBreaks \in Nat /\ MaxChannels \in Nat
  /\ EventLimit \in Nat \ {0}
  /\ SubscriberBuffer \in Nat \ {0}

VARIABLES
  events,          \* stream.events, the ring
  eventStart,      \* index in it of the oldest event (from 1)
  nextSequence,    \* the last sequence number given out
  droppedThrough,  \* the last one that was overwritten
  stream,           \* "open", "done", or "evicted" from Hub.streams
  subscribers,     \* stream.subscribers
  queue,           \* what each channel holds
  capacity,        \* its buffer size, 0 before it is made
  closed,          \* the channels that are closed
  ended,           \* the channels whose request's context is done
  conn,            \* the subscription each reader is connected to
  reset,           \* the readers whose stream begins with "stream_reset"
  last,            \* the id of the last event each reader received, or 0
  reader,          \* "reading", "finished" by the "done" event, or "gone" (410)
  breaks

ring == <<events, eventStart, nextSequence, droppedThrough>>
subs == <<subscribers, queue, capacity, closed>>
browsers == <<ended, conn, reset, last, reader, breaks>>
hubVars == <<ring, stream, subs, browsers>>

HubTypeOK ==
  /\ events \in Seq(1 .. MaxEvents) /\ Len(events) <= EventLimit
  /\ eventStart \in 1 .. EventLimit
  /\ nextSequence \in 0 .. MaxEvents
  /\ droppedThrough \in 0 .. MaxEvents
  /\ stream \in {"open", "done", "evicted"}
  /\ subscribers \subseteq Channels
  /\ queue \in [Channels -> Seq(1 .. MaxEvents)]
  /\ \A c \in Channels : Len(queue[c]) <= capacity[c]
  /\ closed \subseteq Channels /\ ended \subseteq Channels
  /\ conn \in [Readers -> Channels \cup {NoChannel}]
  /\ reset \subseteq Readers
  /\ last \in [Readers -> 0 .. MaxEvents]
  /\ reader \in [Readers -> {"reading", "finished", "gone"}]
  /\ breaks \in 0 .. MaxBreaks

(* Hub.Create; the last of MaxEvents events is "done".                     *)
HubInit ==
  /\ events = <<>>
  /\ eventStart = 1
  /\ nextSequence = 0
  /\ droppedThrough = 0
  /\ stream = "open"
  /\ subscribers = {}
  /\ queue = [c \in Channels |-> <<>>]
  /\ capacity = [c \in Channels |-> 0]
  /\ closed = {}
  /\ ended = {}
  /\ conn = [r \in Readers |-> NoChannel]
  /\ reset = {}
  /\ last = [r \in Readers |-> 0]
  /\ reader = [r \in Readers |-> "reading"]
  /\ breaks = 0

-----------------------------------------------------------------------------
(* The ring.                                                               *)

(* stream.eventsAfter: from the oldest event, around the ring, those that come
   after the given one.                                                    *)
EventsAfter(after) ==
  LET n == Len(events)
      inOrder == [i \in 1 .. n |-> events[((eventStart - 1 + i - 1) % n) + 1]]
      kept == {i \in 1 .. n : inOrder[i] > after}
      Nth(k) == CHOOSE i \in kept : Cardinality({j \in kept : j <= i}) = k
  IN [k \in 1 .. Cardinality(kept) |-> inOrder[Nth(k)]]

Overwrite(e) ==
  /\ droppedThrough' = events[eventStart]
  /\ events' = [events EXCEPT ![eventStart] = e]
  /\ eventStart' = (eventStart % Len(events)) + 1

Retain(e) ==
  \/ /\ Len(events) < EventLimit
     /\ events' = Append(events, e)
     /\ UNCHANGED <<eventStart, droppedThrough>>
  \/ /\ Len(events) = EventLimit
     /\ Overwrite(e)

-----------------------------------------------------------------------------
(* Publishing.                                                             *)

Slow == {c \in subscribers : Len(queue[c]) >= capacity[c]}

Sent(e) ==
  queue' = [c \in Channels |-> IF c \in subscribers \ Slow THEN Append(queue[c], e) ELSE queue[c]]

DropSlow == subscribers' = subscribers \ Slow /\ UNCHANGED closed
CloseSlow == closed' = closed \cup Slow /\ UNCHANGED subscribers

(* A subscriber whose buffer is full is disconnected, never waited for.    *)
DisconnectSlow ==
  /\ subscribers' = subscribers \ Slow
  /\ closed' = closed \cup Slow

Publish ==
  /\ stream = "open"
  /\ nextSequence < MaxEvents
  /\ nextSequence' = nextSequence + 1
  /\ Retain(nextSequence')
  /\ Sent(nextSequence')
  /\ DisconnectSlow
  /\ UNCHANGED <<stream, capacity, browsers>>

(* execute completes the stream right after it has published "done".       *)
Complete ==
  /\ stream = "open"
  /\ nextSequence = MaxEvents
  /\ stream' = "done"
  /\ closed' = closed \cup subscribers
  /\ subscribers' = {}
  /\ UNCHANGED <<ring, queue, capacity, browsers>>

(* time.AfterFunc(retention): the stream is forgotten, readers or not.     *)
Evict ==
  /\ stream = "done"
  /\ stream' = "evicted"
  /\ UNCHANGED <<ring, subs, browsers>>

-----------------------------------------------------------------------------
(* Subscribing.                                                            *)

TruncatedOffByOne(after) == after > 0 /\ after + 1 < droppedThrough

(* An event the reader has not received is gone.  A reader that has received
   none starts at whatever is kept.                                        *)
Truncated(after) == after > 0 /\ after < droppedThrough

NewChannel(c) == capacity[c] = 0 /\ \A d \in 1 .. c - 1 : capacity[d] # 0

(* streamRun and SubscribeReplay with Last-Event-ID, into channel c.       *)
Subscribe(r, c) ==
  /\ reader[r] = "reading"
  /\ conn[r] = NoChannel
  /\ stream # "evicted"
  /\ NewChannel(c)
  /\ LET replay == EventsAfter(last[r]) IN
     /\ queue' = [queue EXCEPT ![c] = replay]
     /\ capacity' = [capacity EXCEPT ![c] = Len(replay) + SubscriberBuffer]
  /\ IF stream = "done"
     THEN closed' = closed \cup {c} /\ UNCHANGED subscribers
     ELSE subscribers' = subscribers \cup {c} /\ UNCHANGED closed
  /\ conn' = [conn EXCEPT ![r] = c]
  /\ reset' = IF Truncated(last[r]) THEN reset \cup {r} ELSE reset
  /\ UNCHANGED <<ring, stream, ended, last, reader, breaks>>

(* 410 Gone: an EventSource does not come back after an error status.      *)
SubscribeGone(r) ==
  /\ reader[r] = "reading"
  /\ conn[r] = NoChannel
  /\ stream = "evicted"
  /\ reader' = [reader EXCEPT ![r] = "gone"]
  /\ UNCHANGED <<ring, stream, subs, ended, conn, reset, last, breaks>>

(* The goroutine that waits for the end of the request.                    *)
Unsubscribe(c) ==
  /\ c \in ended
  /\ stream = "open"
  /\ c \in subscribers
  /\ subscribers' = subscribers \ {c}
  /\ closed' = closed \cup {c}
  /\ UNCHANGED <<ring, stream, queue, capacity, browsers>>

-----------------------------------------------------------------------------
(* The browser.                                                            *)

Hangup(r) ==
  /\ ended' = ended \cup {conn[r]}
  /\ conn' = [conn EXCEPT ![r] = NoChannel]

(* "stream_reset": closes the stream, loads the transcript, and attaches as a
   new EventSource, which has received nothing.                            *)
ReceiveReset(r) ==
  /\ r \in reset
  /\ Hangup(r)
  /\ reset' = reset \ {r}
  /\ last' = [last EXCEPT ![r] = 0]
  /\ UNCHANGED <<ring, stream, subs, reader, breaks>>

Receive(r) ==
  LET c == conn[r] IN
  /\ c # NoChannel /\ r \notin reset
  /\ queue[c] # <<>>
  /\ queue' = [queue EXCEPT ![c] = Tail(@)]
  /\ last' = [last EXCEPT ![r] = Head(queue[c])]
  /\ IF last'[r] = MaxEvents               \* "done" closes the EventSource
     THEN Hangup(r) /\ reader' = [reader EXCEPT ![r] = "finished"]
     ELSE UNCHANGED <<ended, conn, reader>>
  /\ UNCHANGED <<ring, stream, subscribers, capacity, closed, reset, breaks>>

(* The server closed the channel and the rest of it was received.          *)
StreamEnds(r) ==
  LET c == conn[r] IN
  /\ c # NoChannel /\ r \notin reset
  /\ c \in closed /\ queue[c] = <<>>
  /\ Hangup(r)
  /\ UNCHANGED <<ring, stream, subs, reset, last, reader, breaks>>

ConnectionBreaks(r) ==
  /\ conn[r] # NoChannel
  /\ breaks < MaxBreaks
  /\ breaks' = breaks + 1
  /\ Hangup(r)
  /\ reset' = reset \ {r}
  /\ UNCHANGED <<ring, stream, subs, last, reader>>

ReaderStep(r) ==
  \/ \E c \in Channels : Subscribe(r, c)
  \/ SubscribeGone(r) \/ ReceiveReset(r) \/ Receive(r) \/ StreamEnds(r)

HubNext ==
  \/ Publish \/ Complete \/ Evict
  \/ \E c \in Channels : Unsubscribe(c)
  \/ \E r \in Readers : ReaderStep(r) \/ ConnectionBreaks(r)

(* An open page keeps reading and reconnecting, as an EventSource does.  The
   run need not go on: what readers are owed, they are owed once it is done. *)
HubSpec == HubInit /\ [][HubNext]_hubVars /\ \A r \in Readers : WF_hubVars(ReaderStep(r))

-----------------------------------------------------------------------------
(* Safety.                                                                 *)

(* Publish never sends on a closed channel and nobody closes one twice, which
   would bring the process down: every one that closes a channel takes it out
   of the subscribers (hub.go:87, 101, 162).                               *)
SubscribersAreOpen ==
  /\ subscribers \cap closed = {}
  /\ stream # "open" => subscribers = {}

(* A reader is told to start over only if it really missed an event, and then
   nothing of the truncated history is applied to what it had.             *)
ResetOnlyIfMissed ==
  \A r \in Readers : r \in reset => last[r] > 0 /\ last[r] < droppedThrough

(* A subscription is open while it is listed, and a browser starts over only
   when it has to.                                                         *)
StreamsAreSound == HubTypeOK /\ SubscribersAreOpen /\ ResetOnlyIfMissed

Log == INSTANCE EventLog WITH
  published <- nextSequence, dropped <- droppedThrough, position <- last

(* The hub with its ring, its full buffers and its reconnecting browsers is an
   event log: no reader skips or repeats an event unless told to start over. *)
IsEventLog == Log!Spec

(* Liveness.                                                               *)

(* Once the run is done, a page that stays open learns it, or learns that the
   stream is gone and it has to reload: no reader waits on a channel that
   nobody serves.  An instance only has so many subscriptions to make.     *)
ReadersFinish ==
  \A r \in Readers :
    stream = "done" ~>
      reader[r] # "reading" \/ (conn[r] = NoChannel /\ \A c \in Channels : capacity[c] # 0)

=============================================================================
