------------------------------ MODULE EventBus ------------------------------
(***************************************************************************)
(* The event bus of fabricksd, events/bus.rs.  publish appends to the      *)
(* history under one lock and then, under another, offers the event to     *)
(* every subscriber; one whose channel is full or closed is dropped from   *)
(* the list.  A filtered subscriber reads from a second channel, which a   *)
(* forwarder task fills from the first.                                    *)
(***************************************************************************)
EXTENDS Naturals, Sequences

CONSTANTS
  Subscribers,   \* subscribers
  Filter,        \* the filtered ones among them, which want odd events only
  Publishers,    \* tasks that publish
  BufferSize,    \* capacity of a channel
  MaxHistory,    \* max_history
  MaxEvents,     \* bound: events published
  NoEvent        \* no event

ASSUME BusAssumption ==
  BufferSize \in Nat \ {0} /\ MaxHistory \in Nat /\ NoEvent \notin Nat

VARIABLES
  history,     \* the history, oldest first
  published,   \* number of events that entered it
  offering,    \* publisher -> the event it has yet to send, or NoEvent
  sent,        \* the events sent so far, in the order of the subscribers' lock
  subs         \* subscriber -> [list, open, rx, inner, held, outer, got, from]

busVars == <<history, published, offering, sent, subs>>

\* list: whether the bus has its sender; open: the other end of that channel
\* is alive; rx: the subscriber is; inner and outer: the channels; held: what
\* the forwarder holds; got: what the subscriber received; from: how many
\* events had been sent before it came.
NewSubscriber ==
  [list |-> TRUE, open |-> TRUE, rx |-> TRUE, inner |-> <<>>, held |-> <<>>, outer |-> <<>>,
   got |-> <<>>, from |-> Len(sent)]

BusInit ==
  /\ history = <<>> /\ published = 0 /\ sent = <<>>
  /\ offering = [p \in Publishers |-> NoEvent]
  /\ subs = [s \in {} |-> NoEvent]

Wanted(s, event) == s \notin Filter \/ event % 2 = 1

\* The first half of publish: the history.
Record(p) ==
  LET event == published + 1 IN
  /\ offering[p] = NoEvent /\ published < MaxEvents
  /\ published' = event
  /\ offering' = [offering EXCEPT ![p] = event]
  /\ history' = Append(IF Len(history) >= MaxHistory /\ history # <<>>
                       THEN Tail(history) ELSE history, event)
  /\ UNCHANGED <<sent, subs>>

\* mutant: an event that does not fit is lost, the subscriber stays
LossySend(sub, event) ==
  IF sub.list /\ sub.open /\ Len(sub.inner) < BufferSize
  THEN [sub EXCEPT !.inner = Append(@, event)] ELSE sub

\* try_send, and the removal of a sender that fails.
TrySend(sub, event) ==
  IF sub.list /\ sub.open /\ Len(sub.inner) < BufferSize
  THEN [sub EXCEPT !.inner = Append(@, event)]
  ELSE [sub EXCEPT !.list = FALSE]

\* The second half: every subscriber in turn, under the lock.
Send(p) ==
  LET event == offering[p] IN
  /\ event # NoEvent
  /\ sent' = Append(sent, event)
  /\ offering' = [offering EXCEPT ![p] = NoEvent]
  /\ subs' = [s \in DOMAIN subs |-> TrySend(subs[s], event)]
  /\ UNCHANGED <<history, published>>

Subscribe(s) ==
  /\ s \notin DOMAIN subs
  /\ subs' = [x \in DOMAIN subs \cup {s} |-> IF x = s THEN NewSubscriber ELSE subs[x]]
  /\ UNCHANGED <<history, published, offering, sent>>

\* The forwarder takes an event, drops it or waits until the outer channel
\* has room for it; it ends when it finds its subscriber gone.
Forward(s) ==
  /\ s \in Filter \cap DOMAIN subs /\ subs[s].open
  /\ \/ /\ subs[s].held = <<>> /\ subs[s].inner # <<>>
        /\ LET event == Head(subs[s].inner) IN
           subs' = [subs EXCEPT ![s].inner = Tail(@),
                                ![s].held = IF Wanted(s, event) THEN <<event>> ELSE <<>>]
     \/ /\ subs[s].held # <<>> /\ subs[s].rx /\ Len(subs[s].outer) < BufferSize
        /\ subs' = [subs EXCEPT ![s].held = <<>>, ![s].outer = @ \o subs[s].held]
     \/ /\ subs[s].held # <<>> /\ ~subs[s].rx
        /\ subs' = [subs EXCEPT ![s].open = FALSE]
  /\ UNCHANGED <<history, published, offering, sent>>

Receive(s) ==
  /\ s \in DOMAIN subs /\ subs[s].rx
  /\ \/ /\ s \notin Filter /\ subs[s].inner # <<>>
        /\ subs' = [subs EXCEPT ![s].inner = Tail(@), ![s].got = Append(@, Head(subs[s].inner))]
     \/ /\ s \in Filter /\ subs[s].outer # <<>>
        /\ subs' = [subs EXCEPT ![s].outer = Tail(@), ![s].got = Append(@, Head(subs[s].outer))]
  /\ UNCHANGED <<history, published, offering, sent>>

\* The receiver is dropped.
Unsubscribe(s) ==
  /\ s \in DOMAIN subs /\ subs[s].rx
  /\ subs' = [subs EXCEPT ![s].rx = FALSE, ![s].open = @ /\ s \in Filter]
  /\ UNCHANGED <<history, published, offering, sent>>

ClearHistory ==
  /\ history # <<>> /\ history' = <<>> /\ UNCHANGED <<published, offering, sent, subs>>

BusNext ==
  \/ \E p \in Publishers : Record(p) \/ Send(p)
  \/ \E s \in Subscribers : Subscribe(s) \/ Forward(s) \/ Receive(s) \/ Unsubscribe(s)
  \/ ClearHistory

BusSpec == BusInit /\ [][BusNext]_busVars

-----------------------------------------------------------------------------
(* Properties.                                                              *)

\* `seen' is, of the events of a log from `first' to `last', those that s
\* wants, in the order of the log: `at' is where in it each of them is.
Selects(s, seen, log, first, last) ==
  \E at \in [1 .. Len(seen) -> first .. last] :
    /\ \A i \in 1 .. Len(seen) : seen[i] = log[at[i]]
    /\ \A i, j \in 1 .. Len(seen) : i < j => at[i] < at[j]
    /\ \A n \in first .. last : Wanted(s, log[n]) <=> \E i \in 1 .. Len(seen) : at[i] = n

\* What a subscriber has received, and what was taken for it.
Seen(sub) == sub.got \o sub.outer \o sub.held

\* What a subscriber has received and has yet to receive is, of the events
\* it wants, all that were sent since it subscribed in the order they were
\* sent, up to some point: it may be cut off when it lags, but it never
\* misses one event and sees a later one, and two subscribers never see two
\* events in different orders.  While it is in the list nothing is cut off.
NoGaps ==
  \A s \in DOMAIN subs :
    LET sub == subs[s] IN
    \E read, cut \in sub.from .. Len(sent) :
      /\ Selects(s, Seen(sub), sent, sub.from + 1, read)
      /\ sub.inner = SubSeq(sent, read + 1, cut) /\ read <= cut
      /\ sub.list /\ sub.rx => cut = Len(sent)

=============================================================================
