---------------------------- MODULE RuntimeEvents ----------------------------
(***************************************************************************)
(* The event bus of cmd/inside/runtime_api.go and the handlers that stream *)
(* its events to dashboards.  The agent's goroutine publishes, holding the *)
(* bus's mutex over all subscribers; a handler subscribes, sends the       *)
(* backlog and then what arrives on its channel.                           *)
(*                                                                         *)
(* Events are numbered in the order they are published; a handler is named *)
(* by its connection, and its channel with it.  lost is a history variable *)
(* and records what sendDropOldest throws away.                            *)
(***************************************************************************)
EXTENDS Integers, Sequences, FiniteSets, Functions

CONSTANTS
    Connections,   \* streaming requests; each connects once
    MaxRing,       \* events the backlog holds (100)
    BufLen,        \* events a channel holds (100)
    MaxEvents      \* bound: events published

ASSUME SizesAssumption ==
    MaxRing \in Nat \ {0} /\ BufLen \in Nat \ {0} /\ MaxEvents \in Nat

VARIABLES
    published,   \* how many events were published
    ring,        \* eventBus.ring
    subs,        \* eventBus.subs: channels that are sent to
    publisher,   \* the publish that holds the mutex, if any
    handler,     \* what each connection's handler is doing
    channel,     \* what each connection's channel buffers
    closed,      \* channels that are closed
    sent,        \* the events written to each connection
    lost         \* the events dropped from each channel

vars == <<published, ring, subs, publisher, handler, channel, closed, sent, lost>>

Unlocked == [pc |-> "idle", todo |-> {}]

Init ==
    /\ published = 0
    /\ ring = <<>>
    /\ subs = {}
    /\ publisher = Unlocked
    /\ handler = [c \in Connections |-> "new"]
    /\ channel = [c \in Connections |-> <<>>]
    /\ closed = {}
    /\ sent = [c \in Connections |-> <<>>]
    /\ lost = [c \in Connections |-> {}]

Free == publisher.pc = "idle"

-----------------------------------------------------------------------------
(* publish *)

(* Faulty variant: the ring is not trimmed. *)
RingUntrimmed(e) == Append(ring, e)

RingWith(e) ==
    IF Len(ring) < MaxRing THEN Append(ring, e) ELSE Append(Tail(ring), e)

Publish ==
    /\ Free
    /\ published < MaxEvents
    /\ published' = published + 1
    /\ ring' = RingWith(published + 1)
    /\ publisher' = IF subs = {} THEN Unlocked ELSE [pc |-> "send", todo |-> subs]
    /\ UNCHANGED <<subs, handler, channel, closed, sent, lost>>

SentTo(c) ==
    IF publisher.todo = {c} THEN Unlocked
    ELSE [pc |-> "send", todo |-> publisher.todo \ {c}]

HasRoom(c) == Len(channel[c]) < BufLen

(* Faulty variant: wait for room. *)
SendBlocking(c) ==
    /\ publisher.pc = "send" /\ c \in publisher.todo
    /\ HasRoom(c)
    /\ channel' = [channel EXCEPT ![c] = Append(@, published)]
    /\ publisher' = SentTo(c)
    /\ UNCHANGED <<published, ring, subs, handler, closed, sent, lost>>

(* The first select of sendDropOldest.  While it works on a channel that was
   full it goes on to no other. *)
Send(c) ==
    /\ publisher.pc = "send" /\ c \in publisher.todo
    /\ IF HasRoom(c)
       THEN /\ channel' = [channel EXCEPT ![c] = Append(@, published)]
            /\ publisher' = SentTo(c)
       ELSE /\ publisher' = [pc |-> "drop", todo |-> publisher.todo, to |-> c]
            /\ UNCHANGED channel
    /\ UNCHANGED <<published, ring, subs, handler, closed, sent, lost>>

(* Faulty variant: the newest event buffered is dropped. *)
DropNewest ==
    /\ publisher.pc = "drop"
    /\ LET c == publisher.to
           n == Len(channel[c])
       IN  IF channel[c] = <<>>
           THEN UNCHANGED <<channel, lost>>
           ELSE /\ channel' = [channel EXCEPT ![c] = SubSeq(@, 1, n - 1)]
                /\ lost' = [lost EXCEPT ![c] = @ \cup {channel[c][n]}]
    /\ publisher' = [publisher EXCEPT !.pc = "again"]
    /\ UNCHANGED <<published, ring, subs, handler, closed, sent>>

(* Its second select: the handler may have emptied the channel by now. *)
DropOldest ==
    /\ publisher.pc = "drop"
    /\ LET c == publisher.to
       IN  IF channel[c] = <<>>
           THEN UNCHANGED <<channel, lost>>
           ELSE /\ channel' = [channel EXCEPT ![c] = Tail(@)]
                /\ lost' = [lost EXCEPT ![c] = @ \cup {Head(channel[c])}]
    /\ publisher' = [publisher EXCEPT !.pc = "again"]
    /\ UNCHANGED <<published, ring, subs, handler, closed, sent>>

(* Its third select.  Only publishers fill a channel. *)
SendAgain ==
    /\ publisher.pc = "again"
    /\ LET c == publisher.to
       IN  /\ IF HasRoom(c)
              THEN /\ channel' = [channel EXCEPT ![c] = Append(@, published)]
                   /\ UNCHANGED lost
              ELSE /\ lost' = [lost EXCEPT ![c] = @ \cup {published}]
                   /\ UNCHANGED channel
           /\ publisher' = SentTo(c)
    /\ UNCHANGED <<published, ring, subs, handler, closed, sent>>

-----------------------------------------------------------------------------
(* The handler of /api/events/stream *)

(* Faulty variant: the backlog is taken before the subscription. *)
SubscribeLate(c) ==
    /\ Free
    /\ \/ /\ handler[c] = "new"
          /\ sent' = [sent EXCEPT ![c] = ring]
          /\ handler' = [handler EXCEPT ![c] = "backlog"]
          /\ UNCHANGED subs
       \/ /\ handler[c] = "backlog"
          /\ subs' = subs \cup {c}
          /\ handler' = [handler EXCEPT ![c] = "stream"]
          /\ UNCHANGED sent
    /\ UNCHANGED <<published, ring, publisher, channel, closed, lost>>

Subscribe(c) ==
    /\ Free
    /\ handler[c] = "new"
    /\ subs' = subs \cup {c}
    /\ handler' = [handler EXCEPT ![c] = "backlog"]
    /\ UNCHANGED <<published, ring, publisher, channel, closed, sent, lost>>

Backlog(c) ==
    /\ Free
    /\ handler[c] = "backlog" /\ c \in subs
    /\ sent' = [sent EXCEPT ![c] = ring]
    /\ handler' = [handler EXCEPT ![c] = "stream"]
    /\ UNCHANGED <<published, ring, subs, publisher, channel, closed, lost>>

Forward(c) ==
    /\ handler[c] = "stream"
    /\ channel[c] # <<>>
    /\ sent' = [sent EXCEPT ![c] = Append(@, Head(channel[c]))]
    /\ channel' = [channel EXCEPT ![c] = Tail(@)]
    /\ UNCHANGED <<published, ring, subs, publisher, handler, closed, lost>>

(* The client has gone: the deferred cancel runs. *)
Leave(c) ==
    /\ handler[c] = "stream"
    /\ handler' = [handler EXCEPT ![c] = "cancel"]
    /\ UNCHANGED <<published, ring, subs, publisher, channel, closed, sent, lost>>

(* Faulty variant: the channel is taken out without the mutex. *)
UnsubscribeUnlocked(c) ==
    /\ handler[c] = "cancel"
    /\ subs' = subs \ {c}
    /\ handler' = [handler EXCEPT ![c] = "close"]
    /\ UNCHANGED <<published, ring, publisher, channel, closed, sent, lost>>

Unsubscribe(c) ==
    /\ Free
    /\ handler[c] = "cancel"
    /\ subs' = subs \ {c}
    /\ handler' = [handler EXCEPT ![c] = "close"]
    /\ UNCHANGED <<published, ring, publisher, channel, closed, sent, lost>>

CloseChannel(c) ==
    /\ handler[c] = "close"
    /\ closed' = closed \cup {c}
    /\ handler' = [handler EXCEPT ![c] = "gone"]
    /\ UNCHANGED <<published, ring, subs, publisher, channel, sent, lost>>

-----------------------------------------------------------------------------
PublisherStep == (\E c \in Connections : Send(c)) \/ DropOldest \/ SendAgain

HandlerStep(c) ==
    \/ Subscribe(c) \/ Backlog(c) \/ Forward(c)
    \/ Leave(c) \/ Unsubscribe(c) \/ CloseChannel(c)

Next == Publish \/ PublisherStep \/ \E c \in Connections : HandlerStep(c)

(* The agent's goroutine is scheduled; a dashboard may stall for ever. *)
Spec == Init /\ [][Next]_vars /\ WF_vars(PublisherStep)

-----------------------------------------------------------------------------
Events == 1 .. MaxEvents

Publisher ==
    [pc : {"idle", "send"}, todo : SUBSET Connections]
      \cup [pc : {"drop", "again"}, todo : SUBSET Connections, to : Connections]

(* What the bus, its channels and the handlers can hold: ring and channels
   stay within their sizes (runtime_api.go lines 58 to 64 and 93 to 107). *)
TypeOK ==
    /\ published \in 0 .. MaxEvents
    /\ ring \in Seq(Events) /\ Len(ring) <= MaxRing
    /\ subs \subseteq Connections
    /\ publisher \in Publisher
    /\ publisher.pc \in {"drop", "again"} => publisher.to \in publisher.todo
    /\ publisher.pc # "idle" => published > 0
    /\ handler \in [Connections ->
         {"new", "backlog", "stream", "cancel", "close", "gone"}]
    /\ channel \in [Connections -> Seq(Events)]
    /\ \A c \in Connections : Len(channel[c]) <= BufLen
    /\ closed \subseteq Connections
    /\ sent \in [Connections -> Seq(Events)]
    /\ lost \in [Connections -> SUBSET Events]

(* runtime_api.go lines 64 and 87: a publish never sends on a channel that a
   handler closed meanwhile, which would be a panic in the agent. *)
NoSendOnClosed == publisher.todo \cap closed = {}

(* lines 64, 301 and 304: a stream misses no event between the oldest of its
   backlog and the latest, except what sendDropOldest dropped. *)
NothingSkipped ==
    \A c \in Connections :
      handler[c] = "stream" /\ sent[c] # <<>> =>
        \A e \in sent[c][1] .. published :
          \/ e \in Range(sent[c]) \cup Range(channel[c]) \cup lost[c]
          \/ e = published /\ c \in publisher.todo

(* lines 93 to 107: what is dropped is older than everything still buffered,
   whenever the handler reads: the newest event always gets in. *)
OldestDropped ==
    \A c \in Connections, e \in Events :
      e \in lost[c] =>
        e < published /\ \A i \in DOMAIN channel[c] : e < channel[c][i]

(* The streams as the queues their readers see: the event being published is in
   the queue of every channel it was not sent to yet, and a channel that is full
   will lose its oldest, unless the handler reads before the publisher looks. *)
Reads(c) == handler[c] \in {"backlog", "stream"}

Reader(c) ==
    CASE handler[c] = "new" -> "new"
      [] handler[c] = "backlog" -> "joined"
      [] handler[c] = "stream" -> "reading"
      [] OTHER -> "gone"

Queue(c) ==
    IF ~Reads(c) THEN <<>>
    ELSE channel[c] \o (IF c \in publisher.todo THEN <<published>> ELSE <<>>)

Late(c) ==
    /\ Reads(c) /\ c \in publisher.todo
    /\ IF publisher.pc # "send" /\ publisher.to = c
       THEN publisher.pc = "drop" /\ channel[c] # <<>>
       ELSE ~HasRoom(c)

Feed == INSTANCE EventFeed
          WITH Readers <- Connections, Recent <- MaxRing, Capacity <- BufLen,
               MaxPublished <- MaxEvents,
               reader <- [c \in Connections |-> Reader(c)],
               queue <- [c \in Connections |-> Queue(c)],
               late <- {c \in Connections : Late(c)},
               given <- sent

(* runtime_api.go lines 58 to 107 and 301 to 332: to its readers the bus, whose
   publisher sends to one channel after another and whose handlers read in
   between, is an EventFeed: what one is given is in order and complete but for
   the oldest it left unread, whatever the others do. *)
ImplementsFeed == Feed!Spec

(* A publish ends although no dashboard reads: a stalled stream does not hold
   up the agent, whose attempts publish between each two steps. *)
PublishEnds == ~Free ~> Free
=============================================================================
