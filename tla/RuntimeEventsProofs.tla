------------------------- MODULE RuntimeEventsProofs -------------------------
(***************************************************************************)
(* Proofs about RuntimeEvents for any streams, buffer sizes and bounds:    *)
(* its invariants, and that it implements EventFeed.                       *)
(***************************************************************************)
EXTENDS RuntimeEvents, TLAPS

-----------------------------------------------------------------------------
(* Type correctness *)

LEMMA InitTypeOK == Init => TypeOK
BY SizesAssumption DEF Init, TypeOK, Unlocked, Publisher

(* A buffer that takes an event within its limit, or loses its oldest. *)
LEMMA Buffers ==
    ASSUME NEW s \in Seq(Events), NEW n \in Nat, Len(s) <= n
    PROVE  /\ \A e \in Events : Append(s, e) \in Seq(Events)
           /\ \A e \in Events : Len(s) < n => Len(Append(s, e)) <= n
           /\ s # <<>> => /\ Tail(s) \in Seq(Events) /\ Head(s) \in Events
                          /\ Len(Tail(s)) = Len(s) - 1
           /\ \A e \in Events :
                s # <<>> => /\ Append(Tail(s), e) \in Seq(Events)
                            /\ Len(Append(Tail(s), e)) <= n
           /\ \A i \in 1 .. Len(s) : s[i] \in Events
OBVIOUS

LEMMA PublisherRecord ==
    ASSUME TypeOK
    PROVE  /\ publisher.pc \in {"idle", "send", "drop", "again"}
           /\ publisher.todo \subseteq Connections
           /\ publisher.pc \in {"drop", "again"} =>
                /\ publisher.to \in publisher.todo
                /\ \A pc \in {"drop", "again"} :
                     /\ [publisher EXCEPT !.pc = pc] \in Publisher
                     /\ [publisher EXCEPT !.pc = pc].pc = pc
                     /\ [publisher EXCEPT !.pc = pc].to = publisher.to
                     /\ [publisher EXCEPT !.pc = pc].todo = publisher.todo
           /\ \A c \in Connections :
                /\ SentTo(c) \in Publisher
                /\ SentTo(c).pc \in {"idle", "send"}
                /\ SentTo(c).todo \subseteq publisher.todo
                /\ SentTo(c).pc = "idle" => SentTo(c).todo = {}
BY DEF TypeOK, Publisher, SentTo, Unlocked

LEMMA PublishTypeOK == TypeOK /\ Publish => TypeOK'
<1> SUFFICES ASSUME TypeOK, Publish PROVE TypeOK'
  OBVIOUS
<1>1. published + 1 \in Events /\ published' \in 0 .. MaxEvents
  BY SizesAssumption DEF Publish, TypeOK, Events
<1>2. ring' \in Seq(Events) /\ Len(ring') <= MaxRing
  <2>1. CASE Len(ring) < MaxRing
    BY <1>1, <2>1, Buffers, SizesAssumption DEF Publish, TypeOK, RingWith
  <2>2. CASE Len(ring) >= MaxRing
    <3>1. ring # <<>>
      BY <2>2, SizesAssumption
    <3>2. QED
      BY <1>1, <2>2, <3>1, Buffers, SizesAssumption
         DEF Publish, TypeOK, RingWith
  <2>3. QED
    BY <2>1, <2>2, SizesAssumption DEF TypeOK
<1>3. publisher' \in Publisher /\ publisher'.pc \in {"idle", "send"}
  BY DEF Publish, TypeOK, Publisher, Unlocked
<1>4. QED
  BY <1>1, <1>2, <1>3 DEF Publish, TypeOK

LEMMA PublisherTypeOK == TypeOK /\ PublisherStep => TypeOK'
<1> SUFFICES ASSUME TypeOK, PublisherStep PROVE TypeOK'
  OBVIOUS
<1>1. published \in Events
  BY PublisherRecord, SizesAssumption
     DEF TypeOK, Events, PublisherStep, Send, DropOldest, SendAgain
<1>2. ASSUME NEW c \in Connections, Send(c) PROVE TypeOK'
  <2>1. CASE HasRoom(c)
    <3>1. /\ Append(channel[c], published) \in Seq(Events)
          /\ Len(Append(channel[c], published)) <= BufLen
      BY <1>1, <2>1, Buffers, SizesAssumption DEF TypeOK, HasRoom
    <3>2. /\ channel' = [channel EXCEPT ![c] = Append(channel[c], published)]
          /\ publisher' = SentTo(c)
      BY <1>2, <2>1 DEF Send
    <3>3. QED
      BY <1>1, <1>2, <3>1, <3>2, PublisherRecord DEF Send, TypeOK
  <2>2. CASE ~HasRoom(c)
    <3>1. publisher' = [pc |-> "drop", todo |-> publisher.todo, to |-> c]
      BY <1>2, <2>2 DEF Send
    <3>2. publisher' \in Publisher
      BY <3>1, PublisherRecord DEF Publisher
    <3>3. QED
      BY <1>1, <1>2, <2>2, <3>1, <3>2 DEF Send, TypeOK
  <2>3. QED
    BY <2>1, <2>2
<1>3. ASSUME DropOldest PROVE TypeOK'
  <2> DEFINE c == publisher.to
  <2>1. c \in Connections /\ publisher' = [publisher EXCEPT !.pc = "again"]
    BY <1>3, PublisherRecord DEF DropOldest
  <2>2. CASE channel[c] = <<>>
    BY <1>3, <2>1, <2>2, PublisherRecord DEF DropOldest, TypeOK
  <2>3. CASE channel[c] # <<>>
    <3>1. /\ Tail(channel[c]) \in Seq(Events) /\ Head(channel[c]) \in Events
          /\ Len(Tail(channel[c])) <= BufLen
      BY <2>1, <2>3, Buffers, SizesAssumption DEF TypeOK
    <3>2. /\ channel' = [channel EXCEPT ![c] = Tail(channel[c])]
          /\ lost' = [lost EXCEPT ![c] = lost[c] \cup {Head(channel[c])}]
      BY <1>3, <2>3 DEF DropOldest
    <3>3. QED
      BY <1>3, <2>1, <3>1, <3>2, PublisherRecord DEF DropOldest, TypeOK
  <2>4. QED
    BY <2>2, <2>3
<1>4. ASSUME SendAgain PROVE TypeOK'
  <2> DEFINE c == publisher.to
  <2>1. c \in Connections /\ publisher' = SentTo(c)
    BY <1>4, PublisherRecord DEF SendAgain
  <2>2. CASE HasRoom(c)
    <3>1. /\ Append(channel[c], published) \in Seq(Events)
          /\ Len(Append(channel[c], published)) <= BufLen
      BY <1>1, <2>1, <2>2, Buffers, SizesAssumption DEF TypeOK, HasRoom
    <3>2. /\ channel' = [channel EXCEPT ![c] = Append(channel[c], published)]
          /\ lost' = lost
      BY <1>4, <2>2 DEF SendAgain
    <3>3. QED
      BY <1>1, <1>4, <2>1, <3>1, <3>2, PublisherRecord DEF SendAgain, TypeOK
  <2>3. CASE ~HasRoom(c)
    <3>1. /\ channel' = channel
          /\ lost' = [lost EXCEPT ![c] = lost[c] \cup {published}]
      BY <1>4, <2>3 DEF SendAgain
    <3>2. QED
      BY <1>1, <1>4, <2>1, <3>1, PublisherRecord DEF SendAgain, TypeOK
  <2>4. QED
    BY <2>2, <2>3
<1>5. QED
  BY <1>2, <1>3, <1>4 DEF PublisherStep

LEMMA HandlerTypeOK ==
    ASSUME TypeOK, NEW c \in Connections, HandlerStep(c)
    PROVE  TypeOK'
<1> USE DEF TypeOK
<1>1. CASE Subscribe(c) \/ Leave(c) \/ Unsubscribe(c) \/ CloseChannel(c)
  BY <1>1 DEF Subscribe, Leave, Unsubscribe, CloseChannel
<1>2. CASE Backlog(c)
  BY <1>2 DEF Backlog
<1>3. CASE Forward(c)
  <2>1. /\ Tail(channel[c]) \in Seq(Events) /\ Head(channel[c]) \in Events
        /\ Len(Tail(channel[c])) <= BufLen
    BY <1>3, Buffers, SizesAssumption DEF Forward
  <2>2. Append(sent[c], Head(channel[c])) \in Seq(Events)
    BY <2>1
  <2>3. QED
    BY <1>3, <2>1, <2>2 DEF Forward
<1>4. QED
  BY <1>1, <1>2, <1>3 DEF HandlerStep

LEMMA StepTypeOK == TypeOK /\ [Next]_vars => TypeOK'
<1>1. TypeOK /\ UNCHANGED vars => TypeOK'
  BY DEF TypeOK, vars
<1>2. QED
  BY <1>1, PublishTypeOK, PublisherTypeOK, HandlerTypeOK DEF Next

(* Every variable keeps its type; the ring and the channels stay within their
   sizes. *)
THEOREM TypeCorrect == Spec => []TypeOK
BY InitTypeOK, StepTypeOK, PTL DEF Spec

-----------------------------------------------------------------------------
(* Who sends on which channel: a publish has the subscribers it found under
   the mutex, none of which can leave meanwhile, and only a channel that was
   taken out of the subscribers is closed. *)
Subscribed ==
    /\ publisher.todo \subseteq subs
    /\ publisher.pc = "idle" => publisher.todo = {}
    /\ subs \cap closed = {}
    /\ \A c \in Connections :
         /\ handler[c] = "new" => c \notin closed
         /\ handler[c] = "close" => c \notin subs

LEMMA InitSubscribed == Init => Subscribed
BY DEF Init, Subscribed, Unlocked

LEMMA StepSubscribed == TypeOK /\ Subscribed /\ [Next]_vars => Subscribed'
<1> SUFFICES ASSUME TypeOK, Subscribed, [Next]_vars PROVE Subscribed'
  OBVIOUS
<1> USE DEF Subscribed
<1>1. CASE Publish
  BY <1>1 DEF Publish, Unlocked
<1>2. CASE PublisherStep
  <2>1. \/ \E c \in Connections :
             \/ publisher' = SentTo(c)
             \/ publisher' = [pc |-> "drop", todo |-> publisher.todo, to |-> c]
        \/ publisher.pc = "drop" /\ publisher' = [publisher EXCEPT !.pc = "again"]
    BY <1>2, PublisherRecord DEF PublisherStep, Send, DropOldest, SendAgain
  <2>2. /\ publisher'.todo \subseteq publisher.todo
        /\ publisher'.pc = "idle" => publisher'.todo = {}
    <3>1. ASSUME NEW c \in Connections, publisher' = SentTo(c)
          PROVE  /\ publisher'.todo \subseteq publisher.todo
                 /\ publisher'.pc = "idle" => publisher'.todo = {}
      BY <3>1, PublisherRecord
    <3>2. CASE publisher.pc = "drop"
               /\ publisher' = [publisher EXCEPT !.pc = "again"]
      <4>1. publisher'.pc = "again" /\ publisher'.todo = publisher.todo
        BY <3>2, PublisherRecord
      <4>2. QED
        BY <4>1
    <3>3. QED
      BY <2>1, <3>1, <3>2
  <2>3. UNCHANGED <<subs, handler, closed>>
    BY <1>2 DEF PublisherStep, Send, DropOldest, SendAgain
  <2>4. QED
    BY <2>2, <2>3
<1>3. ASSUME NEW c \in Connections, HandlerStep(c) PROVE Subscribed'
  <2>1. CASE Subscribe(c)
    BY <2>1 DEF Subscribe, TypeOK
  <2>2. CASE Backlog(c) \/ Forward(c) \/ Leave(c)
    BY <2>2 DEF Backlog, Forward, Leave, TypeOK
  <2>3. CASE Unsubscribe(c)
    BY <2>3 DEF Unsubscribe, Free, TypeOK
  <2>4. CASE CloseChannel(c)
    BY <2>4 DEF CloseChannel, TypeOK
  <2>5. QED
    BY <1>3, <2>1, <2>2, <2>3, <2>4 DEF HandlerStep
<1>4. CASE UNCHANGED vars
  BY <1>4 DEF vars
<1>5. QED
  BY <1>1, <1>2, <1>3, <1>4 DEF Next

(* runtime_api.go lines 64 and 87: however many streams come and go while the
   agent publishes, it never sends on a channel that is closed. *)
THEOREM NeverSendsOnClosed == Spec => []NoSendOnClosed
<1>1. Subscribed => NoSendOnClosed
  BY DEF Subscribed, NoSendOnClosed
<1>2. QED
  BY <1>1, InitSubscribed, StepSubscribed, TypeCorrect, PTL DEF Spec

-----------------------------------------------------------------------------
(* What a channel buffers is in order of publication, and what it lost is
   older.  A channel that still waits for the event being published has none
   as new, and there is room for it once the oldest was dropped: only
   publishers fill a channel, and there is one at a time. *)
Below(s, e) == \A i \in 1 .. Len(s) : s[i] < e
Above(s, e) == \A i \in 1 .. Len(s) : e < s[i]
Increasing(s) == \A i, j \in 1 .. Len(s) : i < j => s[i] < s[j]

InOrder(c) ==
    /\ Increasing(channel[c])
    /\ Below(channel[c], published + 1)
    /\ c \in publisher.todo => Below(channel[c], published)
    /\ \A e \in lost[c] : e < published /\ Above(channel[c], e)

Ordered ==
    /\ \A c \in Connections : InOrder(c)
    /\ publisher.pc = "again" => HasRoom(publisher.to)

LEMMA EventsAreNumbers == \A e \in Events : e \in Nat /\ e \in Int
BY SizesAssumption DEF Events

LEMMA AppendInOrder ==
    ASSUME NEW s \in Seq(Events), NEW e \in Events, Increasing(s), Below(s, e)
    PROVE  /\ Increasing(Append(s, e)) /\ Below(Append(s, e), e + 1)
           /\ \A d \in Events : d < e /\ Above(s, d) => Above(Append(s, e), d)
<1>1. /\ Len(Append(s, e)) = Len(s) + 1 /\ Len(s) \in Nat
      /\ \A i \in 1 .. Len(s) : Append(s, e)[i] = s[i] /\ s[i] \in Int
      /\ Append(s, e)[Len(s) + 1] = e /\ e \in Int
  <2>1. /\ \A i \in 1 .. Len(s) : Append(s, e)[i] = s[i] /\ s[i] \in Events
        /\ Append(s, e)[Len(s) + 1] = e /\ Len(Append(s, e)) = Len(s) + 1
    OBVIOUS
  <2>2. QED
    BY <2>1, EventsAreNumbers
<1>2. \A i \in 1 .. Len(s) + 1 : i \in 1 .. Len(s) \/ i = Len(s) + 1
  BY <1>1
<1>3. Below(Append(s, e), e + 1)
  BY <1>1, <1>2 DEF Below
<1>4. Increasing(Append(s, e))
  BY <1>1, <1>2 DEF Increasing, Below
<1>5. ASSUME NEW d \in Events, d < e, Above(s, d) PROVE Above(Append(s, e), d)
  BY <1>1, <1>2, <1>5 DEF Above
<1>6. QED
  BY <1>3, <1>4, <1>5

LEMMA TailInOrder ==
    ASSUME NEW s \in Seq(Events), s # <<>>, Increasing(s)
    PROVE  /\ Increasing(Tail(s)) /\ Above(Tail(s), Head(s))
           /\ \A e \in Int : Below(s, e) => Below(Tail(s), e) /\ Head(s) < e
           /\ \A e \in Int : Above(s, e) => Above(Tail(s), e)
<1>1. /\ Len(s) \in Nat \ {0} /\ Len(Tail(s)) = Len(s) - 1 /\ Head(s) = s[1]
      /\ \A i \in 1 .. Len(s) - 1 : Tail(s)[i] = s[i + 1]
      /\ \A i \in 1 .. Len(s) : s[i] \in Int
  <2>1. /\ Len(s) \in Nat \ {0} /\ Len(Tail(s)) = Len(s) - 1 /\ Head(s) = s[1]
        /\ \A i \in 1 .. Len(s) - 1 : Tail(s)[i] = s[i + 1]
        /\ \A i \in 1 .. Len(s) : s[i] \in Events
    OBVIOUS
  <2>2. QED
    BY <2>1, EventsAreNumbers
<1>2. QED
  BY <1>1 DEF Increasing, Above, Below

LEMMA InitOrdered == Init => Ordered
BY SizesAssumption
   DEF Init, Ordered, InOrder, Increasing, Below, Above, Unlocked

LEMMA PublishOrdered == TypeOK /\ Subscribed /\ Ordered /\ Publish => Ordered'
<1> SUFFICES ASSUME TypeOK, Subscribed, Ordered, Publish PROVE Ordered'
  OBVIOUS
<1>1. /\ published \in Nat /\ published' = published + 1
      /\ UNCHANGED <<channel, lost>> /\ publisher'.pc # "again"
  BY DEF Publish, TypeOK, Unlocked
<1>2. SUFFICES ASSUME NEW c \in Connections PROVE InOrder(c)'
  BY <1>1 DEF Ordered
<1>3. /\ InOrder(c) /\ channel[c] \in Seq(Events) /\ lost[c] \subseteq Events
      /\ \A i \in 1 .. Len(channel[c]) : channel[c][i] \in Int
  <2>1. InOrder(c) /\ channel[c] \in Seq(Events) /\ lost[c] \subseteq Events
    BY DEF Ordered, TypeOK
  <2>2. \A i \in 1 .. Len(channel[c]) : channel[c][i] \in Events
    BY <2>1
  <2>3. QED
    BY <2>1, <2>2, EventsAreNumbers
<1>4. Below(channel[c], published + 1) /\ Below(channel[c], published + 1 + 1)
  BY <1>1, <1>3 DEF InOrder, Below
<1>5. QED
  BY <1>1, <1>3, <1>4 DEF InOrder, Events

(* One channel changes, and only its own order has to be shown. *)
LEMMA OthersInOrder ==
    ASSUME TypeOK, Ordered, NEW c \in Connections, NEW b \in Connections \ {c},
           channel'[b] = channel[b], lost'[b] = lost[b],
           published' = published, publisher'.todo \subseteq publisher.todo
    PROVE  InOrder(b)'
BY DEF Ordered, InOrder

LEMMA PublisherOrdered ==
    TypeOK /\ Subscribed /\ Ordered /\ PublisherStep => Ordered'
<1> SUFFICES ASSUME TypeOK, Subscribed, Ordered, PublisherStep PROVE Ordered'
  OBVIOUS
<1>1. published \in Events /\ published' = published
  BY PublisherRecord, SizesAssumption
     DEF TypeOK, Events, PublisherStep, Send, DropOldest, SendAgain
<1>2. ASSUME NEW c \in Connections, c \in publisher.todo, HasRoom(c),
             channel' = [channel EXCEPT ![c] = Append(channel[c], published)],
             lost' = lost, publisher' = SentTo(c)
      PROVE  Ordered'
  <2>1. /\ publisher'.todo \subseteq publisher.todo \ {c}
        /\ publisher'.pc # "again"
    BY <1>2, PublisherRecord DEF SentTo, Unlocked
  <2>2. /\ channel'[c] = Append(channel[c], published)
        /\ \A b \in Connections \ {c} : channel'[b] = channel[b]
        /\ channel[c] \in Seq(Events) /\ lost[c] \subseteq Events /\ InOrder(c)
    BY <1>2 DEF TypeOK, Ordered
  <2>3. InOrder(c)'
    BY <1>1, <1>2, <2>1, <2>2, AppendInOrder DEF InOrder
  <2>4. \A b \in Connections \ {c} : InOrder(b)'
    BY <1>1, <1>2, <2>1, <2>2, OthersInOrder
  <2>5. QED
    BY <2>1, <2>3, <2>4 DEF Ordered
<1>3. ASSUME NEW c \in Connections, Send(c) PROVE Ordered'
  <2>1. CASE HasRoom(c)
    BY <1>2, <1>3, <2>1 DEF Send
  <2>2. CASE ~HasRoom(c)
    <3>1. /\ publisher'.todo = publisher.todo /\ publisher'.pc = "drop"
          /\ UNCHANGED <<channel, lost, published>>
      BY <1>3, <2>2 DEF Send
    <3>2. QED
      BY <3>1 DEF Ordered, InOrder
  <2>3. QED
    BY <2>1, <2>2
<1>4. CASE DropOldest
  <2> DEFINE c == publisher.to
  <2>1. /\ c \in Connections /\ c \in publisher.todo
        /\ publisher'.todo = publisher.todo /\ publisher'.to = c
    BY <1>4, PublisherRecord DEF DropOldest
  <2>2. CASE channel[c] = <<>>
    <3>1. UNCHANGED <<channel, lost, published>>
      BY <1>4, <2>2 DEF DropOldest
    <3>2. HasRoom(c)'
      <4>1. Len(channel[c]) = 0
        BY <2>2
      <4>2. channel'[c] = channel[c] /\ publisher'.to = c
        BY <2>1, <3>1
      <4>3. QED
        BY <2>1, <4>1, <4>2, SizesAssumption DEF HasRoom
    <3>3. QED
      BY <2>1, <3>1, <3>2 DEF Ordered, InOrder, HasRoom
  <2>3. CASE channel[c] # <<>>
    <3>1. /\ channel'[c] = Tail(channel[c])
          /\ lost'[c] = lost[c] \cup {Head(channel[c])}
          /\ \A b \in Connections \ {c} :
               channel'[b] = channel[b] /\ lost'[b] = lost[b]
          /\ channel[c] \in Seq(Events) /\ lost[c] \subseteq Events
          /\ InOrder(c)
      BY <1>4, <2>1, <2>3 DEF DropOldest, TypeOK, Ordered
    <3>2. HasRoom(publisher.to)'
      BY <2>1, <2>3, <3>1, Buffers, SizesAssumption DEF HasRoom, TypeOK
    <3>3. InOrder(c)'
      BY <1>1, <2>1, <2>3, <3>1, TailInOrder DEF InOrder, Events
    <3>4. \A b \in Connections \ {c} : InOrder(b)'
      BY <1>1, <2>1, <3>1, OthersInOrder
    <3>5. QED
      BY <2>1, <3>2, <3>3, <3>4 DEF Ordered
  <2>4. QED
    BY <2>2, <2>3
<1>5. CASE SendAgain
  <2>1. publisher.to \in Connections /\ publisher.to \in publisher.todo
        /\ HasRoom(publisher.to)
    BY <1>5, PublisherRecord DEF SendAgain, Ordered
  <2>2. QED
    BY <1>2, <1>5, <2>1 DEF SendAgain
<1>6. QED
  BY <1>3, <1>4, <1>5 DEF PublisherStep

LEMMA HandlerOrdered ==
    ASSUME TypeOK, Ordered, NEW c \in Connections, HandlerStep(c)
    PROVE  Ordered'
<1>1. CASE Forward(c)
  <2>1. /\ channel'[c] = Tail(channel[c]) /\ channel[c] # <<>>
        /\ \A b \in Connections \ {c} : channel'[b] = channel[b]
        /\ channel[c] \in Seq(Events) /\ lost[c] \subseteq Events /\ InOrder(c)
        /\ UNCHANGED <<lost, published, publisher>> /\ published \in Nat
    BY <1>1 DEF Forward, TypeOK, Ordered
  <2>2. InOrder(c)'
    BY <2>1, TailInOrder DEF InOrder, Events
  <2>3. \A b \in Connections \ {c} : InOrder(b)'
    BY <2>1, OthersInOrder
  <2>4. \A b \in Connections : Len(channel'[b]) <= Len(channel[b])
    BY <2>1, Buffers DEF TypeOK
  <2>5. publisher.pc = "again" => HasRoom(publisher.to)'
    BY <2>1, <2>4, PublisherRecord, SizesAssumption
       DEF Ordered, HasRoom, TypeOK
  <2>6. QED
    BY <2>1, <2>2, <2>3, <2>5 DEF Ordered
<1>2. CASE ~Forward(c)
  <2>1. UNCHANGED <<channel, lost, published, publisher>>
    BY <1>2 DEF HandlerStep, Subscribe, Backlog, Leave, Unsubscribe, CloseChannel
  <2>2. QED
    BY <2>1 DEF Ordered, InOrder, HasRoom
<1>3. QED
  BY <1>1, <1>2

LEMMA StepOrdered == TypeOK /\ Subscribed /\ Ordered /\ [Next]_vars => Ordered'
<1>1. Ordered /\ UNCHANGED vars => Ordered'
  BY DEF Ordered, InOrder, HasRoom, vars
<1>2. QED
  BY <1>1, PublishOrdered, PublisherOrdered, HandlerOrdered DEF Next

(* runtime_api.go lines 93 to 107: of a full channel the oldest event is
   dropped, never the one published, whatever the reader does meanwhile. *)
THEOREM OnlyOldestDropped == Spec => []OldestDropped
<1>1. TypeOK /\ Ordered => OldestDropped
  BY DEF TypeOK, Ordered, InOrder, Above, OldestDropped
<1>2. QED
  BY <1>1, InitOrdered, StepOrdered, InitSubscribed, StepSubscribed, TypeCorrect,
     PTL DEF Spec

-----------------------------------------------------------------------------
(* What a stream was sent, what waits in its channel and what its channel lost
   are all the events since the first it was sent, of which the one being
   published may still be to come.  A stream that was sent none has missed none:
   its backlog was empty because nothing had been published. *)
Arrived(c, e) == e \in Range(sent[c]) \cup Range(channel[c]) \cup lost[c]

Complete(c) ==
    \A e \in 1 .. published :
      sent[c] # <<>> /\ sent[c][1] <= e =>
        Arrived(c, e) \/ (e = published /\ c \in publisher.todo)

FromTheStart(c) ==
    sent[c] = <<>> =>
      \A e \in 1 .. published : Arrived(c, e) \/ (e = published /\ c \in publisher.todo)

(* The ring holds the last events, and is empty only before the first. *)
RingIsLast ==
    /\ Len(ring) <= published
    /\ ring = <<>> => published = 0
    /\ \A i \in 1 .. Len(ring) : ring[i] = published - Len(ring) + i

Followed(c) == handler[c] = "stream" => c \in subs /\ Complete(c) /\ FromTheStart(c)

Unbroken == RingIsLast /\ \A c \in Connections : Followed(c)

LEMMA InitUnbroken == Init => Unbroken
BY DEF Init, Unbroken, RingIsLast, Followed

LEMMA RangeOfAppend ==
    ASSUME NEW s \in Seq(Events), NEW e \in Events
    PROVE  /\ Range(Append(s, e)) = Range(s) \cup {e}
           /\ Append(s, e) # <<>>
           /\ Append(s, e)[1] = IF s = <<>> THEN e ELSE s[1]
<1>1. /\ DOMAIN s = 1 .. Len(s) /\ Len(s) \in Nat
      /\ DOMAIN Append(s, e) = 1 .. Len(s) + 1
      /\ \A i \in 1 .. Len(s) : Append(s, e)[i] = s[i]
      /\ Append(s, e)[Len(s) + 1] = e
      /\ s = <<>> <=> Len(s) = 0
  OBVIOUS
<1>2. \A i : i \in 1 .. Len(s) + 1 <=> i \in 1 .. Len(s) \/ i = Len(s) + 1
  BY <1>1
<1>3. Range(Append(s, e)) = Range(s) \cup {e}
  BY <1>1, <1>2 DEF Range
<1>4. Append(s, e)[1] = IF s = <<>> THEN e ELSE s[1]
  <2>1. CASE s = <<>>
    BY <1>1, <2>1
  <2>2. CASE s # <<>>
    <3>1. 1 \in 1 .. Len(s)
      BY <1>1, <2>2
    <3> QED BY <1>1, <2>2, <3>1
  <2> QED BY <2>1, <2>2
<1> QED BY <1>1, <1>3, <1>4

LEMMA RangeOfTail ==
    ASSUME NEW s \in Seq(Events), s # <<>>
    PROVE  Range(s) = Range(Tail(s)) \cup {Head(s)}
<1>1. /\ DOMAIN s = 1 .. Len(s) /\ Len(s) \in Nat \ {0}
      /\ DOMAIN Tail(s) = 1 .. Len(s) - 1 /\ Head(s) = s[1]
      /\ \A i \in 1 .. Len(s) - 1 : Tail(s)[i] = s[i + 1]
  OBVIOUS
<1>2. /\ \A i \in 1 .. Len(s) : i = 1 \/ i - 1 \in 1 .. Len(s) - 1
      /\ \A i \in 1 .. Len(s) - 1 : i + 1 \in 1 .. Len(s)
      /\ 1 \in 1 .. Len(s)
  BY <1>1
<1>3. ASSUME NEW i \in 1 .. Len(s) PROVE s[i] \in Range(Tail(s)) \cup {Head(s)}
  <2>1. CASE i = 1
    BY <1>1, <2>1
  <2>2. CASE i - 1 \in 1 .. Len(s) - 1
    <3>1. Tail(s)[i - 1] = s[i]
      BY <1>1, <2>2
    <3> QED BY <1>1, <2>2, <3>1 DEF Range
  <2> QED BY <1>2, <2>1, <2>2
<1>4. Range(Tail(s)) \cup {Head(s)} \subseteq Range(s)
  BY <1>1, <1>2 DEF Range
<1> QED BY <1>1, <1>3, <1>4 DEF Range

(* A publish makes the ring the last events again. *)
LEMMA PublishRing == TypeOK /\ RingIsLast /\ Publish => RingIsLast'
<1> SUFFICES ASSUME TypeOK, RingIsLast, Publish PROVE RingIsLast'
  OBVIOUS
<1>1. /\ published \in Nat /\ published' = published + 1 /\ published + 1 \in Events
      /\ ring \in Seq(Events) /\ ring' = RingWith(published + 1) /\ Len(ring) \in Nat
  BY SizesAssumption DEF Publish, TypeOK, Events
<1> DEFINE e == published + 1
<1> HIDE DEF e
<1>e. e \in Events /\ e = published + 1
  BY <1>1 DEF e
<1>2. CASE Len(ring) < MaxRing
  <2>1. ring' = Append(ring, e)
    BY <1>1, <1>2, <1>e DEF RingWith
  <2>2. /\ Len(ring') = Len(ring) + 1 /\ ring' # <<>>
        /\ \A i \in 1 .. Len(ring) : ring'[i] = ring[i]
        /\ ring'[Len(ring) + 1] = e
    BY <1>1, <1>e, <2>1
  <2>3. ASSUME NEW i \in 1 .. Len(ring) + 1
        PROVE  ring'[i] = published' - (Len(ring) + 1) + i
    <3>1. CASE i \in 1 .. Len(ring)
      BY <1>1, <2>2, <3>1 DEF RingIsLast
    <3>2. CASE i = Len(ring) + 1
      BY <1>1, <1>e, <2>2, <3>2
    <3> QED BY <1>1, <3>1, <3>2
  <2>4. Len(ring') <= published' /\ Len(ring') = Len(ring) + 1
    BY <1>1, <2>2 DEF RingIsLast
  <2> QED BY <2>2, <2>3, <2>4 DEF RingIsLast
<1>3. CASE Len(ring) >= MaxRing
  <2>1. ring' = Append(Tail(ring), e) /\ ring # <<>> /\ Len(ring) \in Nat \ {0}
    BY <1>1, <1>3, <1>e, SizesAssumption DEF RingWith
  <2>2. /\ Len(ring') = Len(ring) /\ ring' # <<>>
        /\ \A i \in 1 .. Len(ring) - 1 : ring'[i] = ring[i + 1]
        /\ ring'[Len(ring)] = e
    <3>1. /\ Tail(ring) \in Seq(Events) /\ Len(Tail(ring)) = Len(ring) - 1
          /\ \A i \in 1 .. Len(ring) - 1 : Tail(ring)[i] = ring[i + 1]
      BY <1>1, <2>1
    <3> DEFINE t == Tail(ring)
    <3> HIDE DEF t
    <3>2. t \in Seq(Events) /\ t = Tail(ring) /\ ring' = Append(t, e)
      BY <2>1, <3>1 DEF t
    <3>3. /\ Len(ring') = Len(t) + 1 /\ ring' # <<>>
          /\ \A i \in 1 .. Len(t) : ring'[i] = t[i]
          /\ ring'[Len(t) + 1] = e
      BY <3>2, <1>e
    <3>4. Len(t) = Len(ring) - 1 /\ Len(t) + 1 = Len(ring)
      BY <2>1, <3>1, <3>2
    <3> QED BY <3>1, <3>2, <3>3, <3>4
  <2>3. ASSUME NEW i \in 1 .. Len(ring)
        PROVE  ring'[i] = published' - Len(ring) + i
    <3>1. CASE i \in 1 .. Len(ring) - 1
      <4>1. i + 1 \in 1 .. Len(ring) /\ ring'[i] = ring[i + 1]
        BY <2>1, <2>2, <3>1
      <4> QED BY <1>1, <2>1, <4>1 DEF RingIsLast
    <3>2. CASE i = Len(ring)
      BY <1>1, <1>e, <2>1, <2>2, <3>2
    <3> QED BY <2>1, <3>1, <3>2
  <2>4. Len(ring') <= published' /\ Len(ring') = Len(ring)
    BY <1>1, <2>2 DEF RingIsLast
  <2> QED BY <2>2, <2>3, <2>4 DEF RingIsLast
<1> QED BY <1>1, <1>2, <1>3, SizesAssumption

LEMMA PublishUnbroken == TypeOK /\ Subscribed /\ Unbroken /\ Publish => Unbroken'
<1> SUFFICES ASSUME TypeOK, Subscribed, Unbroken, Publish PROVE Unbroken'
  OBVIOUS
<1>1. RingIsLast'
  BY PublishRing DEF Unbroken
<1>2. /\ published \in Nat /\ published' = published + 1 /\ publisher.todo = {}
      /\ UNCHANGED <<channel, lost, sent, handler, subs>>
  BY DEF Publish, TypeOK, Subscribed, Free
<1>3. ASSUME NEW c \in Connections, handler[c] = "stream"
      PROVE  c \in subs' /\ Complete(c)' /\ FromTheStart(c)'
  <2>1. c \in subs /\ Complete(c) /\ FromTheStart(c)
    BY <1>3 DEF Unbroken, Followed
  <2>2. c \in publisher'.todo
    BY <2>1 DEF Publish
  <2>3. \A e \in 1 .. published' : e = published' \/ e \in 1 .. published
    BY <1>2
  <2>4. \A e : Arrived(c, e)' <=> Arrived(c, e)
    BY <1>2 DEF Arrived
  <2>5. Complete(c)' /\ FromTheStart(c)'
    BY <1>2, <2>1, <2>2, <2>3, <2>4 DEF Complete, FromTheStart
  <2> QED BY <1>2, <2>1, <2>5
<1> QED BY <1>1, <1>2, <1>3 DEF Unbroken, Followed

(* A step that publishes nothing keeps a stream complete when what had arrived
   still has, and so has an event that stops being pending. *)
LEMMA StaysComplete ==
    ASSUME NEW c \in Connections, Complete(c), FromTheStart(c),
           published' = published, sent'[c] = sent[c],
           \A e : Arrived(c, e) => Arrived(c, e)',
           c \in publisher.todo => c \in publisher'.todo \/ Arrived(c, published)'
    PROVE  Complete(c)' /\ FromTheStart(c)'
BY DEF Complete, FromTheStart

LEMMA PublisherUnbroken == TypeOK /\ Unbroken /\ PublisherStep => Unbroken'
<1> SUFFICES ASSUME TypeOK, Unbroken, PublisherStep PROVE Unbroken'
  OBVIOUS
<1>1. /\ published \in Events
      /\ UNCHANGED <<published, ring, subs, handler, sent>>
  BY PublisherRecord, SizesAssumption
     DEF TypeOK, Events, PublisherStep, Send, DropOldest, SendAgain
<1>2. SUFFICES ASSUME NEW b \in Connections, Complete(b), FromTheStart(b)
               PROVE  Complete(b)' /\ FromTheStart(b)'
  BY <1>1 DEF Unbroken, RingIsLast, Followed
<1>3. SUFFICES /\ \A e : Arrived(b, e) => Arrived(b, e)'
               /\ b \in publisher.todo => b \in publisher'.todo \/ Arrived(b, published)'
  BY <1>1, <1>2, StaysComplete
<1>4. ASSUME NEW c \in Connections, publisher' = SentTo(c) PROVE publisher.todo \subseteq publisher'.todo \cup {c}
  BY <1>4, PublisherRecord DEF SentTo, Unlocked
<1>5. ASSUME NEW c \in Connections, lost' = lost, publisher' = SentTo(c),
             channel' = [channel EXCEPT ![c] = Append(channel[c], published)]
      PROVE  /\ \A e : Arrived(b, e) => Arrived(b, e)'
             /\ b \in publisher.todo => b \in publisher'.todo \/ Arrived(b, published)'
  <2>1. /\ channel \in [Connections -> Seq(Events)]
        /\ Range(Append(channel[c], published)) = Range(channel[c]) \cup {published}
    BY <1>1, RangeOfAppend DEF TypeOK
  <2>2. CASE b = c
    <3>1. Range(channel'[b]) = Range(channel[b]) \cup {published}
      BY <1>5, <2>1, <2>2
    <3> QED BY <1>1, <1>5, <3>1 DEF Arrived
  <2>3. CASE b # c
    <3>1. channel'[b] = channel[b]
      BY <1>5, <2>1, <2>3
    <3> QED BY <1>1, <1>4, <1>5, <2>3, <3>1 DEF Arrived
  <2> QED BY <2>2, <2>3
<1>6. ASSUME NEW c \in Connections, Send(c)
      PROVE  /\ \A e : Arrived(b, e) => Arrived(b, e)'
             /\ b \in publisher.todo => b \in publisher'.todo \/ Arrived(b, published)'
  <2>1. CASE HasRoom(c)
    BY <1>5, <1>6, <2>1 DEF Send
  <2>2. CASE ~HasRoom(c)
    BY <1>1, <1>6, <2>2 DEF Send, Arrived
  <2> QED BY <2>1, <2>2
<1>7. CASE DropOldest
  <2> DEFINE c == publisher.to
  <2>1. c \in Connections /\ publisher'.todo = publisher.todo
    BY <1>7, PublisherRecord DEF DropOldest
  <2>2. ASSUME channel[c] # <<>>, b = c, NEW e, Arrived(b, e) PROVE Arrived(b, e)'
    <3>1. /\ channel'[c] = Tail(channel[c]) /\ lost'[c] = lost[c] \cup {Head(channel[c])}
          /\ channel[c] \in Seq(Events)
      BY <1>7, <2>1, <2>2 DEF DropOldest, TypeOK
    <3>2. Range(channel[c]) = Range(channel'[c]) \cup {Head(channel[c])}
      BY <2>2, <3>1, RangeOfTail
    <3> QED BY <1>1, <2>2, <3>1, <3>2 DEF Arrived
  <2>3. ASSUME channel[c] = <<>> \/ b # c PROVE channel'[b] = channel[b] /\ lost'[b] = lost[b]
    BY <1>7, <2>1, <2>3 DEF DropOldest, TypeOK
  <2> QED BY <1>1, <2>1, <2>2, <2>3 DEF Arrived
<1>8. CASE SendAgain
  <2> DEFINE c == publisher.to
  <2>1. c \in Connections /\ publisher' = SentTo(c)
    BY <1>8, PublisherRecord DEF SendAgain
  <2>2. CASE HasRoom(c)
    BY <1>5, <1>8, <2>1, <2>2 DEF SendAgain
  <2>3. CASE ~HasRoom(c)
    <3>1. channel' = channel /\ lost' = [lost EXCEPT ![c] = lost[c] \cup {published}]
      BY <1>8, <2>3 DEF SendAgain
    <3>2. /\ lost'[c] = lost[c] \cup {published}
          /\ b # c => lost'[b] = lost[b]
      BY <2>1, <3>1 DEF TypeOK
    <3> QED BY <1>1, <1>4, <2>1, <3>1, <3>2 DEF Arrived
  <2> QED BY <2>2, <2>3
<1> QED BY <1>6, <1>7, <1>8 DEF PublisherStep

(* The backlog is the last events, so a stream that begins with it has missed
   none since the first of them. *)
LEMMA BacklogIsComplete ==
    ASSUME TypeOK, Subscribed, Unbroken, NEW c \in Connections, Backlog(c)
    PROVE  Complete(c)' /\ FromTheStart(c)'
<1>1. /\ sent'[c] = ring /\ published' = published /\ published \in Nat
      /\ ring \in Seq(Events) /\ Len(ring) \in Nat /\ RingIsLast
  BY DEF Backlog, TypeOK, Unbroken
<1>2. ASSUME ring # <<>>, NEW e \in 1 .. published, ring[1] <= e PROVE e \in Range(ring)
  <2>1. Len(ring) >= 1 /\ ring[1] = published - Len(ring) + 1
    BY <1>1, <1>2 DEF RingIsLast
  <2> DEFINE i == e - (published - Len(ring))
  <2>2. i \in 1 .. Len(ring)
    BY <1>1, <1>2, <2>1
  <2>3. ring[i] = published - Len(ring) + i
    BY <1>1, <2>2 DEF RingIsLast
  <2>4. ring[i] = e
    BY <1>1, <2>1, <2>3
  <2> QED BY <1>1, <2>2, <2>4 DEF Range
<1>3. Complete(c)'
  BY <1>1, <1>2 DEF Complete, Arrived
<1>4. FromTheStart(c)'
  BY <1>1 DEF RingIsLast, FromTheStart
<1> QED BY <1>3, <1>4

LEMMA ForwardIsComplete ==
    ASSUME TypeOK, NEW c \in Connections, Forward(c), Complete(c), FromTheStart(c)
    PROVE  Complete(c)' /\ FromTheStart(c)'
<1> DEFINE h == Head(channel[c])
<1>1. /\ channel[c] \in Seq(Events) /\ channel[c] # <<>> /\ sent[c] \in Seq(Events)
      /\ channel'[c] = Tail(channel[c]) /\ sent'[c] = Append(sent[c], h)
      /\ UNCHANGED <<published, publisher, lost>>
  BY DEF Forward, TypeOK
<1>2. h \in Events
  BY <1>1
<1> HIDE DEF h
<1>3. /\ Range(sent'[c]) = Range(sent[c]) \cup {h}
      /\ sent'[c] # <<>> /\ (sent[c] # <<>> => sent'[c][1] = sent[c][1])
  BY <1>1, <1>2, RangeOfAppend
<1>4. Range(channel[c]) = Range(channel'[c]) \cup {h}
  BY <1>1, RangeOfTail DEF h
<1>5. \A e : Arrived(c, e) => Arrived(c, e)'
  BY <1>1, <1>3, <1>4 DEF Arrived
<1>6. Complete(c)'
  BY <1>1, <1>3, <1>5 DEF Complete, FromTheStart
<1> QED BY <1>3, <1>6 DEF FromTheStart

LEMMA HandlerUnbroken ==
    ASSUME TypeOK, Subscribed, Unbroken, NEW c \in Connections, HandlerStep(c)
    PROVE  Unbroken'
<1>1. UNCHANGED <<published, ring, publisher, lost>> /\ RingIsLast'
  BY DEF HandlerStep, Subscribe, Backlog, Forward, Leave, Unsubscribe, CloseChannel,
         Unbroken, RingIsLast
<1>2. ASSUME NEW b \in Connections, b # c PROVE Followed(b)'
  <2>1. /\ handler'[b] = handler[b] /\ sent'[b] = sent[b] /\ channel'[b] = channel[b]
        /\ b \in subs => b \in subs'
    BY <1>2 DEF HandlerStep, Subscribe, Backlog, Forward, Leave, Unsubscribe, CloseChannel, TypeOK
  <2> QED BY <1>1, <2>1 DEF Unbroken, Followed, Complete, FromTheStart, Arrived
<1>3. Followed(c)'
  <2>1. CASE Backlog(c)
    <3>1. c \in subs'
      BY <2>1 DEF Backlog
    <3> QED BY <2>1, <3>1, BacklogIsComplete DEF Followed
  <2>2. CASE Forward(c)
    <3>1. Complete(c) /\ FromTheStart(c) /\ c \in subs /\ subs' = subs
      BY <2>2 DEF Forward, Unbroken, Followed
    <3> QED BY <2>2, <3>1, ForwardIsComplete DEF Followed
  <2>3. CASE Subscribe(c) \/ Leave(c) \/ Unsubscribe(c) \/ CloseChannel(c)
    <3>1. handler'[c] # "stream"
      BY <2>3 DEF Subscribe, Leave, Unsubscribe, CloseChannel, TypeOK
    <3> QED BY <3>1 DEF Followed
  <2> QED BY <2>1, <2>2, <2>3 DEF HandlerStep
<1> QED BY <1>1, <1>2, <1>3 DEF Unbroken

LEMMA StepUnbroken == TypeOK /\ Subscribed /\ Unbroken /\ [Next]_vars => Unbroken'
<1>1. Unbroken /\ UNCHANGED vars => Unbroken'
  BY DEF Unbroken, RingIsLast, Followed, Complete, FromTheStart, Arrived, vars
<1> QED
  BY <1>1, PublishUnbroken, PublisherUnbroken, HandlerUnbroken DEF Next

(* runtime_api.go lines 64, 301 and 304: however events are published around the
   subscription, a stream misses none between the first of its backlog and the
   latest, except what sendDropOldest dropped. *)
THEOREM NoneSkipped == Spec => []NothingSkipped
<1>1. TypeOK /\ Unbroken => NothingSkipped
  <2> SUFFICES ASSUME TypeOK, Unbroken, NEW c \in Connections,
                      handler[c] = "stream", sent[c] # <<>>,
                      NEW e \in sent[c][1] .. published
               PROVE  \/ e \in Range(sent[c]) \cup Range(channel[c]) \cup lost[c]
                      \/ e = published /\ c \in publisher.todo
    BY DEF NothingSkipped
  <2>1. sent[c][1] \in Events
    BY DEF TypeOK
  <2>2. e \in 1 .. published /\ sent[c][1] <= e
    BY <2>1, SizesAssumption DEF TypeOK, Events
  <2> QED BY <2>2 DEF Unbroken, Followed, Complete, Arrived
<1>2. QED
  BY <1>1, InitUnbroken, StepUnbroken, InitSubscribed, StepSubscribed, TypeCorrect,
     PTL DEF Spec

-----------------------------------------------------------------------------
(* The order of what a stream sends *)

(* A stream is its backlog and what came after it, each in order.  What came after
   the backlog is older than what the channel buffers and what it waits for. *)
TwoRuns(s, k) ==
    \A i, j \in 1 .. Len(s) : i < j /\ (j <= k \/ k < i) => s[i] < s[j]

OlderThanUnread(c, k) ==
    \A i \in 1 .. Len(sent[c]) :
      k < i => /\ sent[c][i] <= published
               /\ c \in publisher.todo => sent[c][i] < published
               /\ Above(channel[c], sent[c][i])

InRuns(c, k) ==
    k <= Len(sent[c]) /\ TwoRuns(sent[c], k) /\ OlderThanUnread(c, k)

AfterBacklog == \A c \in Connections : \E k \in 0 .. MaxRing : InRuns(c, k)

(* runtime_api.go lines 301 to 332: at the end of its backlog a stream may come to
   events it was sent already; otherwise it never goes back in time or repeats
   itself, whatever was dropped and however many streams there are. *)
GoesBackOnce ==
    \A c \in Connections :
      \E k \in 0 .. MaxRing : k <= Len(sent[c]) /\ TwoRuns(sent[c], k)

LEMMA InitAfterBacklog == Init => AfterBacklog
<1> SUFFICES ASSUME Init, NEW c \in Connections PROVE InRuns(c, 0)
  BY SizesAssumption DEF AfterBacklog
<1>1. sent[c] = <<>>
  BY DEF Init
<1> QED BY <1>1 DEF InRuns, TwoRuns, OlderThanUnread

LEMMA SentNumbers ==
    ASSUME TypeOK, NEW c \in Connections
    PROVE  /\ sent[c] \in Seq(Events) /\ channel[c] \in Seq(Events)
           /\ Len(sent[c]) \in Nat /\ published \in Nat
           /\ \A i \in 1 .. Len(sent[c]) : sent[c][i] \in Events /\ sent[c][i] \in Int
<1>1. sent[c] \in Seq(Events) /\ channel[c] \in Seq(Events) /\ published \in Nat
  BY SizesAssumption DEF TypeOK
<1>2. \A i \in 1 .. Len(sent[c]) : sent[c][i] \in Events
  BY <1>1
<1> QED BY <1>1, <1>2, EventsAreNumbers

(* A step that sends c nothing, and gives its channel only what is newer. *)
LEMMA RunsKept ==
    ASSUME TypeOK, NEW c \in Connections, NEW k \in 0 .. MaxRing, InRuns(c, k),
           sent'[c] = sent[c], published' = published,
           publisher'.todo \subseteq publisher.todo,
           \A e \in Events : \/ ~Above(channel[c], e)
                             \/ Above(channel'[c], e)
                             \/ c \in publisher.todo /\ ~(e < published)
    PROVE  InRuns(c, k)'
<1>1. TwoRuns(sent[c], k)' /\ (k <= Len(sent[c]))'
  BY DEF InRuns, TwoRuns
<1>2. OlderThanUnread(c, k)'
  BY SentNumbers DEF InRuns, OlderThanUnread
<1> QED BY <1>1, <1>2 DEF InRuns

LEMMA PublishRuns ==
    ASSUME TypeOK, Ordered, AfterBacklog, Publish PROVE AfterBacklog'
<1> SUFFICES ASSUME NEW c \in Connections, NEW k \in 0 .. MaxRing, InRuns(c, k)
             PROVE  InRuns(c, k)'
  BY DEF AfterBacklog
<1>1. published' = published + 1 /\ UNCHANGED <<sent, channel>>
  BY DEF Publish
<1>2. \A i \in 1 .. Len(sent[c]) : k < i => sent[c][i] < published + 1
  BY SentNumbers DEF InRuns, OlderThanUnread
<1>3. OlderThanUnread(c, k)'
  BY <1>1, <1>2, SentNumbers DEF InRuns, OlderThanUnread
<1>4. TwoRuns(sent[c], k)'
  BY <1>1 DEF InRuns, TwoRuns
<1> QED BY <1>1, <1>3, <1>4 DEF InRuns

LEMMA SendRuns ==
    ASSUME TypeOK, NEW c \in publisher.todo, published \in Events,
           channel' = [channel EXCEPT ![c] = Append(channel[c], published)],
           publisher' = SentTo(c), UNCHANGED <<published, sent>>, AfterBacklog
    PROVE  AfterBacklog'
<1>1. c \in Connections /\ publisher'.todo \subseteq publisher.todo
  BY PublisherRecord
<1> SUFFICES ASSUME NEW b \in Connections, NEW k \in 0 .. MaxRing, InRuns(b, k)
             PROVE  InRuns(b, k)'
  BY DEF AfterBacklog
<1>2. CASE b = c
  <2>1. channel'[c] = Append(channel[c], published) /\ channel[c] \in Seq(Events)
    BY <1>1 DEF TypeOK
  <2>2. /\ Len(channel'[c]) = Len(channel[c]) + 1 /\ Len(channel[c]) \in Nat
        /\ \A i \in 1 .. Len(channel[c]) : channel'[c][i] = channel[c][i]
        /\ channel'[c][Len(channel[c]) + 1] = published
    BY <2>1
  <2>3. \A e \in Events : Above(channel[c], e) /\ e < published => Above(channel'[c], e)
    BY <2>2 DEF Above
  <2> QED BY <1>1, <1>2, <2>3, RunsKept
<1>3. CASE b # c
  BY <1>1, <1>3, RunsKept DEF TypeOK
<1> QED BY <1>2, <1>3

LEMMA PublisherRuns ==
    ASSUME TypeOK, Ordered, AfterBacklog, PublisherStep PROVE AfterBacklog'
<1>1. published \in Events /\ UNCHANGED <<published, sent>>
  BY PublisherRecord, SizesAssumption
     DEF TypeOK, Events, PublisherStep, Send, DropOldest, SendAgain
<1>2. ASSUME NEW c \in publisher.todo,
             channel' = [channel EXCEPT ![c] = Append(channel[c], published)],
             publisher' = SentTo(c)
      PROVE  AfterBacklog'
  BY <1>1, <1>2, SendRuns
<1>3. ASSUME channel' = channel, publisher'.todo \subseteq publisher.todo
      PROVE  AfterBacklog'
  BY <1>1, <1>3, RunsKept DEF AfterBacklog
<1>4. ASSUME NEW c \in Connections, Send(c) PROVE AfterBacklog'
  <2>1. CASE HasRoom(c)
    BY <1>2, <1>4, <2>1 DEF Send
  <2>2. CASE ~HasRoom(c)
    BY <1>3, <1>4, <2>2 DEF Send
  <2> QED BY <2>1, <2>2
<1>5. ASSUME SendAgain PROVE AfterBacklog'
  <2>1. PICK c \in publisher.todo : c = publisher.to
    BY <1>5, PublisherRecord DEF SendAgain
  <2>2. CASE HasRoom(c)
    BY <1>2, <1>5, <2>1, <2>2 DEF SendAgain
  <2>3. CASE ~HasRoom(c)
    BY <1>5, <2>1, <2>3 DEF SendAgain, Ordered
  <2> QED BY <2>2, <2>3
<1>6. ASSUME DropOldest PROVE AfterBacklog'
  <2>1. PICK c \in Connections : c = publisher.to
    BY <1>6, PublisherRecord DEF DropOldest
  <2>2. publisher'.todo = publisher.todo
    BY <1>6, PublisherRecord DEF DropOldest
  <2>3. CASE channel[c] = <<>>
    BY <1>3, <1>6, <2>1, <2>2, <2>3 DEF DropOldest
  <2>4. CASE channel[c] # <<>>
    <3>1. channel' = [channel EXCEPT ![c] = Tail(channel[c])]
      BY <1>6, <2>1, <2>4 DEF DropOldest
    <3>2. /\ channel'[c] = Tail(channel[c]) /\ channel[c] \in Seq(Events)
          /\ \A b \in Connections : b # c => channel'[b] = channel[b]
      BY <3>1 DEF TypeOK
    <3>3. Increasing(channel[c])
      BY DEF Ordered, InOrder
    <3>4. \A e \in Events : Above(channel[c], e) => Above(channel'[c], e)
      BY <2>4, <3>2, <3>3, TailInOrder, EventsAreNumbers
    <3>5. \A b \in Connections, e \in Events :
            Above(channel[b], e) => Above(channel'[b], e)
      BY <3>2, <3>4
    <3> SUFFICES ASSUME NEW b \in Connections, NEW k \in 0 .. MaxRing, InRuns(b, k)
                 PROVE  InRuns(b, k)'
      BY DEF AfterBacklog
    <3> QED BY <1>1, <2>2, <3>5, RunsKept
  <2> QED BY <2>3, <2>4
<1> QED BY <1>4, <1>5, <1>6 DEF PublisherStep

(* The backlog is in order; what follows it is still to come. *)
LEMMA BacklogRuns ==
    ASSUME TypeOK, RingIsLast, NEW c \in Connections, Backlog(c)
    PROVE  \E k \in 0 .. MaxRing : InRuns(c, k)'
<1>1. sent'[c] = ring /\ ring \in Seq(Events) /\ Len(ring) \in 0 .. MaxRing
  BY SizesAssumption DEF Backlog, TypeOK
<1>2. TwoRuns(ring, Len(ring))
  <2>1. \A i, j \in 1 .. Len(ring) : i < j => ring[i] < ring[j]
    BY <1>1, SizesAssumption DEF RingIsLast, TypeOK
  <2> QED BY <2>1 DEF TwoRuns
<1>3. PICK k \in 0 .. MaxRing : k = Len(ring)
  BY <1>1
<1>4. OlderThanUnread(c, k)'
  BY <1>1, <1>3 DEF OlderThanUnread
<1>5. (k <= Len(sent[c]))' /\ TwoRuns(sent[c], k)'
  BY <1>1, <1>2, <1>3 DEF TwoRuns
<1> QED BY <1>4, <1>5 DEF InRuns

(* What is sent next is newer than all since the backlog. *)
LEMMA ForwardRuns ==
    ASSUME TypeOK, Ordered, NEW c \in Connections, Forward(c),
           NEW k \in 0 .. MaxRing, InRuns(c, k)
    PROVE  InRuns(c, k)'
<1>1. /\ channel[c] # <<>> /\ channel[c] \in Seq(Events) /\ sent[c] \in Seq(Events)
      /\ channel'[c] = Tail(channel[c]) /\ sent'[c] = Append(sent[c], Head(channel[c]))
      /\ UNCHANGED <<published, publisher>>
  BY DEF Forward, TypeOK
<1>2. PICK e \in Events : e = Head(channel[c])
  BY <1>1
<1>3. /\ e \in Int /\ e <= published /\ (c \in publisher.todo => e < published)
      /\ Above(channel'[c], e)
  BY <1>1, <1>2, SentNumbers, TailInOrder, EventsAreNumbers DEF Ordered, InOrder
<1>4. /\ Len(sent'[c]) = Len(sent[c]) + 1 /\ Len(sent[c]) \in Nat
      /\ \A i \in 1 .. Len(sent[c]) : sent'[c][i] = sent[c][i]
      /\ sent'[c][Len(sent[c]) + 1] = e
  BY <1>1, <1>2
<1>5. \A i \in 1 .. Len(sent[c]) : k < i => sent[c][i] < e
  BY <1>1, <1>2 DEF InRuns, OlderThanUnread, Above
<1>6. \A i \in 1 .. Len(sent'[c]) : i \in 1 .. Len(sent[c]) \/ i = Len(sent[c]) + 1
  BY <1>4
<1>7. TwoRuns(sent[c], k)'
  <2>1. k <= Len(sent[c]) /\ TwoRuns(sent[c], k)
    BY DEF InRuns
  <2> SUFFICES ASSUME NEW i \in 1 .. Len(sent'[c]), NEW j \in 1 .. Len(sent'[c]),
                      i < j, j <= k \/ k < i
               PROVE  sent'[c][i] < sent'[c][j]
    BY DEF TwoRuns
  <2>2. i \in 1 .. Len(sent[c]) /\ sent'[c][i] = sent[c][i]
    BY <1>4, <1>6
  <2>3. CASE j \in 1 .. Len(sent[c])
    <3>1. sent'[c][j] = sent[c][j]
      BY <1>4, <2>3
    <3>2. sent[c][i] < sent[c][j]
      BY <2>1, <2>2, <2>3 DEF TwoRuns
    <3> QED BY <2>2, <3>1, <3>2
  <2>4. CASE j = Len(sent[c]) + 1
    BY <1>4, <1>5, <2>1, <2>2, <2>4
  <2> QED BY <1>6, <2>3, <2>4
<1>8. OlderThanUnread(c, k)'
  <2>1. \A i \in 1 .. Len(sent[c]) : k < i => Above(channel'[c], sent[c][i])
    BY <1>1, TailInOrder, SentNumbers DEF InRuns, OlderThanUnread, Ordered, InOrder
  <2> QED BY <1>1, <1>3, <1>4, <1>6, <2>1 DEF InRuns, OlderThanUnread
<1> QED BY <1>4, <1>7, <1>8 DEF InRuns

LEMMA HandlerRuns ==
    ASSUME TypeOK, Ordered, RingIsLast, AfterBacklog, NEW c \in Connections, HandlerStep(c)
    PROVE  AfterBacklog'
<1>1. ASSUME NEW b \in Connections, channel'[b] = channel[b], sent'[b] = sent[b]
      PROVE  \E k \in 0 .. MaxRing : InRuns(b, k)'
  <2>1. UNCHANGED <<published, publisher>>
    BY DEF HandlerStep, Subscribe, Backlog, Forward, Leave, Unsubscribe, CloseChannel
  <2>2. PICK k \in 0 .. MaxRing : InRuns(b, k)
    BY DEF AfterBacklog
  <2>3. InRuns(b, k)'
    BY <1>1, <2>1, <2>2, RunsKept
  <2> QED BY <2>3
<1>2. \A b \in Connections \ {c} : channel'[b] = channel[b] /\ sent'[b] = sent[b]
  BY DEF HandlerStep, Subscribe, Backlog, Forward, Leave, Unsubscribe, CloseChannel, TypeOK
<1>3. \E k \in 0 .. MaxRing : InRuns(c, k)'
  <2>1. CASE Backlog(c)
    BY <2>1, BacklogRuns
  <2>2. CASE Forward(c)
    BY <2>2, ForwardRuns DEF AfterBacklog
  <2>3. CASE Subscribe(c) \/ Leave(c) \/ Unsubscribe(c) \/ CloseChannel(c)
    BY <1>1, <2>3 DEF Subscribe, Leave, Unsubscribe, CloseChannel
  <2> QED BY <2>1, <2>2, <2>3 DEF HandlerStep
<1> QED BY <1>1, <1>2, <1>3 DEF AfterBacklog

LEMMA StepAfterBacklog ==
    TypeOK /\ Ordered /\ Unbroken /\ AfterBacklog /\ [Next]_vars => AfterBacklog'
<1> SUFFICES ASSUME TypeOK, Ordered, Unbroken, AfterBacklog, [Next]_vars
             PROVE  AfterBacklog'
  OBVIOUS
<1>1. CASE UNCHANGED vars
  BY <1>1, RunsKept DEF vars, AfterBacklog
<1> QED BY <1>1, PublishRuns, PublisherRuns, HandlerRuns DEF Next, Unbroken

(* runtime_api.go lines 301 to 332: what a stream sends goes back in the order of
   publication at most once, where its backlog ends, whatever is dropped. *)
THEOREM BacklogEndsOnce == Spec => []GoesBackOnce
<1>1. AfterBacklog => GoesBackOnce
  BY DEF AfterBacklog, GoesBackOnce, InRuns
<1> QED
  BY <1>1, InitAfterBacklog, StepAfterBacklog, InitOrdered, StepOrdered, InitUnbroken,
     StepUnbroken, InitSubscribed, StepSubscribed, TypeCorrect, PTL DEF Spec

-----------------------------------------------------------------------------
(* The bus implements EventFeed.  The step of a publisher that goes on to the
   next channel is not seen; a reader sees an event when it is published. *)

(* Steps of the feed, told by what they do to each reader. *)
LEMMA FeedStutters ==
    ASSUME published' = published, sent' = sent,
           \A b \in Connections : /\ Reader(b)' = Reader(b) /\ Queue(b)' = Queue(b)
                                  /\ Late(b)' <=> Late(b)
    PROVE  UNCHANGED Feed!feedVars
BY DEF Feed!feedVars

LEMMA FeedPublishes ==
    ASSUME published < MaxEvents, published' = published + 1, sent' = sent,
           \A b \in Connections :
             /\ ~Late(b) /\ Reader(b)' = Reader(b)
             /\ Reads(b) <=> Reader(b) \in {"joined", "reading"}
             /\ Queue(b)' = IF Reads(b) THEN Append(Queue(b), published + 1) ELSE Queue(b)
             /\ Late(b)' <=> Reads(b) /\ Len(Queue(b)) = BufLen
    PROVE  Feed!Publish
<1>1. {b \in Connections : Late(b)} = {}
  OBVIOUS
<1>2. \A b \in Connections : b \in Feed!Listening <=> Reads(b)
  BY DEF Feed!Listening
<1>3. Feed!Listening \subseteq Connections
  BY DEF Feed!Listening
<1>4. [b \in Connections |-> Queue(b)]'
        = [b \in Connections |-> IF b \in Feed!Listening THEN Append(Queue(b), published + 1) ELSE Queue(b)]
  BY <1>2
<1>5. {b \in Connections : Late(b)}' = {b \in Feed!Listening : Len([x \in Connections |-> Queue(x)][b]) = BufLen}
  BY <1>2, <1>3
<1>6. [b \in Connections |-> Reader(b)]' = [b \in Connections |-> Reader(b)]
  OBVIOUS
<1> QED BY <1>1, <1>4, <1>5, <1>6 DEF Feed!Publish

LEMMA FeedDrops ==
    ASSUME NEW c \in Connections, Late(c), Len(Queue(c)) > 1,
           published' = published, sent' = sent,
           \A b \in Connections :
             /\ Reader(b)' = Reader(b)
             /\ Queue(b)' = IF b = c THEN Tail(Queue(c)) ELSE Queue(b)
             /\ Late(b)' <=> Late(b) /\ b # c
    PROVE  Feed!Drop(c)
BY DEF Feed!Drop

LEMMA FeedJoins ==
    ASSUME NEW c \in Connections, Reader(c) = "new", published' = published, sent' = sent,
           \A b \in Connections :
             /\ Reader(b)' = IF b = c THEN "joined" ELSE Reader(b)
             /\ Queue(b)' = Queue(b) /\ (Late(b)' <=> Late(b))
    PROVE  Feed!Join(c)
BY DEF Feed!Join

LEMMA FeedBegins ==
    ASSUME NEW c \in Connections, Reader(c) = "joined", published' = published,
           sent' = [sent EXCEPT ![c] = Feed!Latest],
           \A b \in Connections :
             /\ Reader(b)' = IF b = c THEN "reading" ELSE Reader(b)
             /\ Queue(b)' = Queue(b) /\ (Late(b)' <=> Late(b))
    PROVE  Feed!Begin(c)
BY DEF Feed!Begin

LEMMA FeedGives ==
    ASSUME NEW c \in Connections, Reader(c) = "reading", Queue(c) # <<>>,
           published' = published, sent' = [sent EXCEPT ![c] = Append(@, Head(Queue(c)))],
           \A b \in Connections :
             /\ Reader(b)' = Reader(b)
             /\ Queue(b)' = IF b = c THEN Tail(Queue(c)) ELSE Queue(b)
             /\ b # c => (Late(b)' <=> Late(b))
             /\ Late(c)' => Late(c)
    PROVE  Feed!Give(c)
BY DEF Feed!Give

LEMMA FeedQuits ==
    ASSUME NEW c \in Connections, Reader(c) = "reading", published' = published, sent' = sent,
           \A b \in Connections :
             /\ Reader(b)' = IF b = c THEN "gone" ELSE Reader(b)
             /\ Queue(b)' = IF b = c THEN <<>> ELSE Queue(b)
             /\ Late(b)' <=> Late(b) /\ b # c
    PROVE  Feed!Quit(c)
BY DEF Feed!Quit

(* A handler that has not begun has a channel nobody sends to, one that reads is
   subscribed, and the ring is as full as it can be. *)
Attached ==
    /\ \A c \in Connections :
         /\ handler[c] = "new" => c \notin subs /\ channel[c] = <<>>
         /\ Reads(c) => c \in subs
    /\ Len(ring) = IF published < MaxRing THEN published ELSE MaxRing

LEMMA InitAttached == Init => Attached
BY SizesAssumption DEF Init, Attached, Reads

LEMMA PublishAttached == TypeOK /\ Attached /\ Publish => Attached'
<1> SUFFICES ASSUME TypeOK, Attached, Publish PROVE Attached'
  OBVIOUS
<1>1. /\ published \in Nat /\ published' = published + 1 /\ published + 1 \in Events
      /\ ring \in Seq(Events) /\ ring' = RingWith(published + 1) /\ Len(ring) \in Nat
      /\ UNCHANGED <<handler, subs, channel>>
  BY SizesAssumption DEF Publish, TypeOK, Events
<1> DEFINE e == published + 1
<1>2. Len(ring') = IF Len(ring) < MaxRing THEN Len(ring) + 1 ELSE Len(ring)
  <2>1. CASE Len(ring) < MaxRing
    <3>1. Len(Append(ring, e)) = Len(ring) + 1
      BY <1>1
    <3> QED BY <1>1, <2>1, <3>1 DEF RingWith
  <2>2. CASE ~(Len(ring) < MaxRing)
    <3>1. ring # <<>> /\ Tail(ring) \in Seq(Events) /\ Len(Tail(ring)) = Len(ring) - 1
      BY <1>1, <2>2, SizesAssumption
    <3>2. Len(Append(Tail(ring), e)) = Len(ring)
      BY <1>1, <3>1
    <3> QED BY <1>1, <2>2, <3>2 DEF RingWith
  <2> QED BY <2>1, <2>2
<1> QED BY <1>1, <1>2, SizesAssumption DEF Attached, Reads

LEMMA StepAttached == TypeOK /\ Subscribed /\ Attached /\ [Next]_vars => Attached'
<1> SUFFICES ASSUME TypeOK, Subscribed, Attached, [Next]_vars PROVE Attached'
  OBVIOUS
<1>1. CASE Publish
  BY <1>1, PublishAttached
<1>2. CASE PublisherStep
  <2>1. UNCHANGED <<published, ring, subs, handler>>
    BY <1>2 DEF PublisherStep, Send, DropOldest, SendAgain
  <2>2. ASSUME NEW c \in Connections, handler[c] = "new" PROVE channel'[c] = channel[c]
    <3>1. c \notin publisher.todo
      BY <2>2 DEF Attached, Subscribed
    <3>2. ASSUME NEW b \in Connections, Send(b) PROVE channel'[c] = channel[c]
      BY <3>1, <3>2 DEF Send, TypeOK
    <3>3. CASE DropOldest \/ SendAgain
      <4>1. publisher.to # c
        BY <3>1, <3>3, PublisherRecord DEF DropOldest, SendAgain
      <4> QED BY <3>3, <4>1 DEF DropOldest, SendAgain, TypeOK
    <3> QED BY <1>2, <3>2, <3>3 DEF PublisherStep
  <2> QED BY <2>1, <2>2 DEF Attached, Reads
<1>3. ASSUME NEW c \in Connections, HandlerStep(c) PROVE Attached'
  BY <1>3 DEF HandlerStep, Subscribe, Backlog, Forward, Leave, Unsubscribe, CloseChannel,
              Attached, Reads, TypeOK
<1>4. CASE UNCHANGED vars
  BY <1>4 DEF vars, Attached, Reads
<1> QED BY <1>1, <1>2, <1>3, <1>4 DEF Next

(* What a reader sees of a handler and its channel. *)
LEMMA Views ==
    ASSUME TypeOK, NEW c \in Connections
    PROVE  /\ Reads(c) <=> Reader(c) \in {"joined", "reading"}
           /\ handler[c] = "new" <=> Reader(c) = "new"
           /\ handler[c] = "backlog" <=> Reader(c) = "joined"
           /\ handler[c] = "stream" <=> Reader(c) = "reading"
BY DEF Reads, Reader, TypeOK

(* A sequence with one more behind it. *)
LEMMA OneMore ==
    ASSUME NEW s \in Seq(Events), NEW e \in Events
    PROVE  /\ s \o <<e>> = Append(s, e) /\ s \o <<>> = s
           /\ Len(s \o <<e>>) = Len(s) + 1 /\ s \o <<e>> # <<>>
           /\ s # <<>> => /\ Tail(s \o <<e>>) = Tail(s) \o <<e>>
                          /\ Head(s \o <<e>>) = Head(s)
                          /\ Len(s) > 0
OBVIOUS

LEMMA PublishFeeds ==
    ASSUME TypeOK, Subscribed, Attached, Publish PROVE Feed!Publish
<1>1. /\ published \in Nat /\ published' = published + 1 /\ published < MaxEvents
      /\ published + 1 \in Events /\ publisher.todo = {}
      /\ UNCHANGED <<channel, sent, handler, subs>>
      /\ publisher' = IF subs = {} THEN Unlocked ELSE [pc |-> "send", todo |-> subs]
  BY SizesAssumption DEF Publish, TypeOK, Subscribed, Free, Events
<1>2. publisher'.todo = subs /\ (subs # {} => publisher'.pc = "send")
  BY <1>1 DEF Unlocked
<1>3. ASSUME NEW b \in Connections
      PROVE  /\ ~Late(b) /\ Reader(b)' = Reader(b)
             /\ Reads(b) <=> Reader(b) \in {"joined", "reading"}
             /\ Queue(b)' = IF Reads(b) THEN Append(Queue(b), published + 1) ELSE Queue(b)
             /\ Late(b)' <=> Reads(b) /\ Len(Queue(b)) = BufLen
  <2>1. ~Late(b) /\ Reader(b)' = Reader(b) /\ (Reads(b)' <=> Reads(b))
    BY <1>1 DEF Late, Reader, Reads
  <2>2. channel[b] \in Seq(Events) /\ Len(channel[b]) \in Nat /\ Len(channel[b]) <= BufLen
    BY DEF TypeOK
  <2>3. CASE Reads(b)
    <3>1. b \in subs
      BY <2>3 DEF Attached
    <3>2. Queue(b) = channel[b]
      BY <1>1, <2>2, <2>3, OneMore DEF Queue
    <3>3. Queue(b)' = channel[b] \o <<published + 1>>
      BY <1>1, <1>2, <2>1, <2>3, <3>1 DEF Queue
    <3>4. Queue(b)' = Append(Queue(b), published + 1)
      BY <1>1, <2>2, <3>2, <3>3, OneMore
    <3>5. Late(b)' <=> ~(Len(channel[b]) < BufLen)
      BY <1>1, <1>2, <2>1, <2>3, <3>1 DEF Late, HasRoom
    <3> QED BY <2>1, <2>2, <2>3, <3>2, <3>4, <3>5, Views, SizesAssumption
  <2>4. CASE ~Reads(b)
    BY <2>1, <2>4, Views DEF Queue, Late
  <2> QED BY <2>3, <2>4
<1> QED BY <1>1, <1>3, FeedPublishes

LEMMA SentToRest ==
    ASSUME TypeOK, NEW c \in publisher.todo
    PROVE  /\ SentTo(c).todo = publisher.todo \ {c}
           /\ SentTo(c).todo # {} => SentTo(c).pc = "send"
BY PublisherRecord DEF SentTo, Unlocked

(* Sending the event to the next channel is not seen: it was in the queue. *)
LEMMA SendingUnseen ==
    ASSUME TypeOK, NEW c \in Connections, c \in publisher.todo, HasRoom(c),
           publisher.pc \in {"send", "again"}, publisher.pc = "again" => publisher.to = c,
           published \in Events,
           channel' = [channel EXCEPT ![c] = Append(channel[c], published)],
           publisher' = SentTo(c), UNCHANGED <<published, handler, sent>>
    PROVE  UNCHANGED Feed!feedVars
<1>1. /\ publisher'.todo = publisher.todo \ {c}
      /\ publisher'.todo # {} => publisher'.pc = "send"
  BY SentToRest
<1>2. /\ channel'[c] = Append(channel[c], published) /\ channel[c] \in Seq(Events)
      /\ \A b \in Connections : b # c => channel'[b] = channel[b]
  BY DEF TypeOK
<1>3. ASSUME NEW b \in Connections
      PROVE  Reader(b)' = Reader(b) /\ Queue(b)' = Queue(b) /\ (Late(b)' <=> Late(b))
  <2>1. Reader(b)' = Reader(b) /\ (Reads(b)' <=> Reads(b))
    BY DEF Reader, Reads
  <2>2. CASE b = c
    <3>1. ~Late(c) /\ ~Late(c)'
      BY <1>1 DEF Late
    <3>2. CASE Reads(c)
      <4>1. Queue(c)' = channel'[c] \o <<>> /\ Queue(c) = channel[c] \o <<published>>
        BY <1>1, <2>1, <2>2, <3>2 DEF Queue
      <4>2. channel'[c] \in Seq(Events)
        BY <1>2
      <4> QED BY <1>2, <2>1, <2>2, <3>1, <4>1, <4>2, OneMore
    <3>3. CASE ~Reads(c)
      BY <2>1, <2>2, <3>1, <3>3 DEF Queue
    <3> QED BY <3>2, <3>3
  <2>3. CASE b # c
    <3>1. channel'[b] = channel[b] /\ (b \in publisher'.todo <=> b \in publisher.todo)
      BY <1>1, <1>2, <2>3
    <3>2. Queue(b)' = Queue(b)
      BY <2>1, <3>1 DEF Queue
    <3>3. b \in publisher.todo =>
            /\ ~(publisher.pc # "send" /\ publisher.to = b)
            /\ publisher'.pc = "send"
      BY <1>1, <2>3, <3>1
    <3>4. Late(b) <=> Reads(b) /\ b \in publisher.todo /\ ~HasRoom(b)
      BY <3>3 DEF Late
    <3>5. Late(b)' <=> Reads(b) /\ b \in publisher.todo /\ ~HasRoom(b)
      BY <2>1, <3>1, <3>3 DEF Late, HasRoom
    <3> QED BY <2>1, <3>2, <3>4, <3>5
  <2> QED BY <2>2, <2>3
<1> QED BY <1>3, FeedStutters

(* A full channel is noticed: its reader was late already. *)
LEMMA FullChannelUnseen ==
    ASSUME TypeOK, NEW c \in Connections, Send(c), ~HasRoom(c)
    PROVE  UNCHANGED Feed!feedVars
<1>1. /\ publisher.pc = "send" /\ c \in publisher.todo
      /\ publisher' = [pc |-> "drop", todo |-> publisher.todo, to |-> c]
      /\ UNCHANGED <<published, handler, sent, channel>>
  BY DEF Send
<1>2. channel[c] # <<>>
  BY SizesAssumption DEF HasRoom, TypeOK
<1>3. publisher'.pc = "drop" /\ publisher'.todo = publisher.todo /\ publisher'.to = c
  BY <1>1
<1>4. ASSUME NEW b \in Connections
      PROVE  Reader(b)' = Reader(b) /\ Queue(b)' = Queue(b) /\ (Late(b)' <=> Late(b))
  <2>1. Reader(b)' = Reader(b) /\ (Reads(b)' <=> Reads(b)) /\ Queue(b)' = Queue(b)
    BY <1>1, <1>3 DEF Reader, Reads, Queue
  <2>2. Late(b) <=> Reads(b) /\ b \in publisher.todo /\ ~HasRoom(b)
    BY <1>1 DEF Late
  <2>3. Late(b)' <=> Reads(b) /\ b \in publisher.todo /\ (b = c \/ ~HasRoom(b))
    BY <1>1, <1>2, <1>3, <2>1 DEF Late, HasRoom
  <2> QED BY <2>1, <2>2, <2>3
<1> QED BY <1>1, <1>4, FeedStutters

LEMMA MoreBehind ==
    ASSUME NEW s \in Seq(Events), NEW e \in Events, s # <<>>
    PROVE  /\ Tail(s \o <<e>>) = Tail(s) \o <<e>> /\ Head(s \o <<e>>) = Head(s)
           /\ s \o <<e>> # <<>> /\ Len(s \o <<e>>) > 1
<1>1. Len(s) \in Nat /\ Len(s) > 0 /\ Len(s \o <<e>>) = Len(s) + 1
  BY OneMore
<1> QED BY <1>1, OneMore

(* A handler may have emptied the channel, or left, by now. *)
LEMMA DropFeeds ==
    ASSUME TypeOK, DropOldest, NEW c \in Connections, c = publisher.to
    PROVE  Feed!Drop(c) \/ UNCHANGED Feed!feedVars
<1>1. /\ c \in publisher.todo /\ publisher.pc = "drop"
      /\ publisher'.pc = "again" /\ publisher'.todo = publisher.todo /\ publisher'.to = c
      /\ UNCHANGED <<published, handler, sent>>
      /\ published \in Events /\ channel[c] \in Seq(Events)
  <2>1. publisher.pc = "drop" /\ publisher' = [publisher EXCEPT !.pc = "again"]
        /\ UNCHANGED <<published, handler, sent>>
    BY DEF DropOldest
  <2>2. published \in Events
    BY <2>1, SizesAssumption DEF TypeOK, Events
  <2> QED BY <2>1, <2>2, PublisherRecord DEF TypeOK
<1>2. \A b \in Connections : Reader(b)' = Reader(b) /\ (Reads(b)' <=> Reads(b))
  BY <1>1 DEF Reader, Reads
<1>3. ASSUME NEW b \in Connections, channel'[b] = channel[b] PROVE Queue(b)' = Queue(b)
  BY <1>1, <1>2, <1>3 DEF Queue
<1>4. ASSUME NEW b \in Connections, b # c, channel'[b] = channel[b] PROVE Late(b)' <=> Late(b)
  BY <1>1, <1>2, <1>4 DEF Late, HasRoom
<1>5. ~Late(c)'
  BY <1>1 DEF Late
<1>6. CASE channel[c] = <<>>
  <2>1. channel' = channel
    BY <1>6 DEF DropOldest
  <2>2. ~Late(c)
    BY <1>1, <1>6 DEF Late
  <2> QED BY <1>1, <1>2, <1>3, <1>4, <1>5, <2>1, <2>2, FeedStutters
<1>7. CASE channel[c] # <<>>
  <2>1. channel' = [channel EXCEPT ![c] = Tail(channel[c])]
    BY <1>7 DEF DropOldest
  <2>2. channel'[c] = Tail(channel[c]) /\ \A b \in Connections : b # c => channel'[b] = channel[b]
    BY <1>1, <2>1 DEF TypeOK
  <2>3. CASE Reads(c)
    <3>1. Queue(c) = channel[c] \o <<published>> /\ Queue(c)' = Tail(channel[c]) \o <<published>>
      BY <1>1, <1>2, <2>2, <2>3 DEF Queue
    <3>2. Queue(c)' = Tail(Queue(c)) /\ Len(Queue(c)) > 1
      <4>1. /\ Tail(channel[c] \o <<published>>) = Tail(channel[c]) \o <<published>>
            /\ Len(channel[c] \o <<published>>) > 1
        BY <1>1, <1>7, MoreBehind
      <4> QED BY <3>1, <4>1
    <3>3. Late(c)
      BY <1>1, <1>7, <2>3 DEF Late
    <3>4. ASSUME NEW b \in Connections
          PROVE  /\ Reader(b)' = Reader(b)
                 /\ Queue(b)' = IF b = c THEN Tail(Queue(c)) ELSE Queue(b)
                 /\ Late(b)' <=> Late(b) /\ b # c
      <4>1. CASE b = c
        BY <1>2, <1>5, <3>2, <4>1
      <4>2. CASE b # c
        <5>1. Queue(b)' = Queue(b) /\ (Late(b)' <=> Late(b))
          BY <1>3, <1>4, <2>2, <4>2
        <5> QED BY <1>2, <4>2, <5>1
      <4> QED BY <4>1, <4>2
    <3>5. Feed!Drop(c)
      BY <1>1, <3>2, <3>3, <3>4, FeedDrops
    <3> QED BY <3>5
  <2>4. CASE ~Reads(c)
    <3>1. Queue(c)' = Queue(c) /\ ~Late(c)
      BY <1>1, <1>2, <2>4 DEF Queue, Late
    <3>2. ASSUME NEW b \in Connections
          PROVE  Reader(b)' = Reader(b) /\ Queue(b)' = Queue(b) /\ (Late(b)' <=> Late(b))
      <4>1. CASE b = c
        BY <1>2, <1>5, <3>1, <4>1
      <4>2. CASE b # c
        <5>1. Queue(b)' = Queue(b) /\ (Late(b)' <=> Late(b))
          BY <1>3, <1>4, <2>2, <4>2
        <5> QED BY <1>2, <5>1
      <4> QED BY <4>1, <4>2
    <3> QED BY <1>1, <3>2, FeedStutters
  <2> QED BY <2>3, <2>4
<1> QED BY <1>6, <1>7

LEMMA PublisherFeeds ==
    ASSUME TypeOK, Ordered, PublisherStep
    PROVE  [Feed!Next]_(Feed!feedVars)
<1>1. published \in Events
  BY PublisherRecord, SizesAssumption
     DEF TypeOK, Events, PublisherStep, Send, DropOldest, SendAgain
<1>2. ASSUME NEW c \in Connections, Send(c) PROVE UNCHANGED Feed!feedVars
  <2>1. CASE HasRoom(c)
    BY <1>1, <1>2, <2>1, SendingUnseen DEF Send
  <2>2. CASE ~HasRoom(c)
    BY <1>2, <2>2, FullChannelUnseen
  <2> QED BY <2>1, <2>2
<1>3. ASSUME SendAgain PROVE UNCHANGED Feed!feedVars
  <2> DEFINE c == publisher.to
  <2>1. c \in Connections /\ c \in publisher.todo /\ HasRoom(c) /\ publisher.pc = "again"
    BY <1>3, PublisherRecord DEF SendAgain, Ordered
  <2>2. /\ channel' = [channel EXCEPT ![c] = Append(channel[c], published)]
        /\ publisher' = SentTo(c) /\ UNCHANGED <<published, handler, sent>>
    BY <1>3, <2>1 DEF SendAgain
  <2> HIDE DEF c
  <2>3. publisher.to = c
    BY DEF c
  <2> QED BY <1>1, <2>1, <2>2, <2>3, SendingUnseen
<1>4. ASSUME DropOldest PROVE [Feed!Next]_(Feed!feedVars)
  <2>1. publisher.to \in Connections
    BY <1>4, PublisherRecord DEF DropOldest
  <2>2. PICK c \in Connections : c = publisher.to
    BY <2>1
  <2>3. Feed!Drop(c) \/ UNCHANGED Feed!feedVars
    BY <1>4, <2>2, DropFeeds
  <2> QED BY <2>3 DEF Feed!Next
<1> QED BY <1>2, <1>3, <1>4 DEF PublisherStep

(* A handler touches its own channel and leaves the others alone. *)
LEMMA OthersUnseen ==
    ASSUME TypeOK, NEW c \in Connections, HandlerStep(c), NEW b \in Connections, b # c
    PROVE  Reader(b)' = Reader(b) /\ Queue(b)' = Queue(b) /\ (Late(b)' <=> Late(b))
<1>1. /\ handler'[b] = handler[b] /\ channel'[b] = channel[b]
      /\ UNCHANGED <<published, publisher>>
  BY DEF HandlerStep, Subscribe, Backlog, Forward, Leave, Unsubscribe, CloseChannel, TypeOK
<1> QED BY <1>1 DEF Reader, Queue, Late, Reads, HasRoom

LEMMA SubscribeFeeds ==
    ASSUME TypeOK, Subscribed, Attached, NEW c \in Connections, Subscribe(c)
    PROVE  Feed!Join(c)
<1>1. /\ handler[c] = "new" /\ handler'[c] = "backlog" /\ publisher.todo = {}
      /\ channel[c] = <<>> /\ UNCHANGED <<published, publisher, channel, sent>>
  BY DEF Subscribe, Free, Subscribed, Attached, TypeOK
<1>2. Reader(c) = "new" /\ Reader(c)' = "joined"
  BY <1>1 DEF Reader
<1>3. Queue(c) = <<>> /\ Queue(c)' = <<>>
  BY <1>1 DEF Queue
<1>4. ~Late(c) /\ ~Late(c)'
  BY <1>1 DEF Late
<1>5. ASSUME NEW b \in Connections
      PROVE  /\ Reader(b)' = IF b = c THEN "joined" ELSE Reader(b)
             /\ Queue(b)' = Queue(b) /\ (Late(b)' <=> Late(b))
  <2>1. CASE b = c
    BY <1>2, <1>3, <1>4, <2>1
  <2>2. CASE b # c
    BY <2>2, OthersUnseen DEF HandlerStep
  <2> QED BY <2>1, <2>2
<1> QED BY <1>1, <1>2, <1>5, FeedJoins

(* The ring holds the latest events. *)
LEMMA RingIsLatest ==
    ASSUME TypeOK, RingIsLast, Attached PROVE ring = Feed!Latest
<1>1. /\ ring \in Seq(Events) /\ Len(ring) = (IF published < MaxRing THEN published ELSE MaxRing)
      /\ \A i \in 1 .. Len(ring) : ring[i] = published - Len(ring) + i
  BY DEF TypeOK, RingIsLast, Attached
<1>2. ring = [i \in 1 .. Len(ring) |-> ring[i]]
  BY <1>1
<1>3. ring = [i \in 1 .. Len(ring) |-> published - Len(ring) + i]
  BY <1>1, <1>2
<1> QED BY <1>1, <1>3 DEF Feed!Latest

LEMMA BacklogFeeds ==
    ASSUME TypeOK, Subscribed, Unbroken, Attached, NEW c \in Connections, Backlog(c)
    PROVE  Feed!Begin(c)
<1>1. /\ handler[c] = "backlog" /\ handler'[c] = "stream" /\ publisher.todo = {}
      /\ sent' = [sent EXCEPT ![c] = ring]
      /\ UNCHANGED <<published, publisher, channel>>
  BY DEF Backlog, Free, Subscribed, TypeOK
<1>2. Reader(c) = "joined" /\ Reader(c)' = "reading"
  BY <1>1 DEF Reader
<1>3. Queue(c)' = Queue(c)
  BY <1>1 DEF Queue, Reads
<1>4. ~Late(c) /\ ~Late(c)'
  BY <1>1 DEF Late
<1>5. ring = Feed!Latest
  BY RingIsLatest DEF Unbroken
<1>6. ASSUME NEW b \in Connections
      PROVE  /\ Reader(b)' = IF b = c THEN "reading" ELSE Reader(b)
             /\ Queue(b)' = Queue(b) /\ (Late(b)' <=> Late(b))
  <2>1. CASE b = c
    BY <1>2, <1>3, <1>4, <2>1
  <2>2. CASE b # c
    BY <2>2, OthersUnseen DEF HandlerStep
  <2> QED BY <2>1, <2>2
<1> QED BY <1>1, <1>2, <1>5, <1>6, FeedBegins

LEMMA ForwardFeeds ==
    ASSUME TypeOK, Subscribed, NEW c \in Connections, Forward(c)
    PROVE  Feed!Give(c)
<1>1. /\ handler[c] = "stream" /\ handler' = handler /\ channel[c] # <<>>
      /\ channel[c] \in Seq(Events) /\ channel'[c] = Tail(channel[c])
      /\ sent' = [sent EXCEPT ![c] = Append(@, Head(channel[c]))]
      /\ UNCHANGED <<published, publisher>>
  BY DEF Forward, TypeOK
<1>2. Reader(c) = "reading" /\ Reader(c)' = "reading" /\ Reads(c) /\ Reads(c)'
  BY <1>1 DEF Reader, Reads
<1>3. /\ Queue(c) # <<>> /\ Head(Queue(c)) = Head(channel[c])
      /\ Queue(c)' = Tail(Queue(c))
  <2>1. CASE c \in publisher.todo
    <3>1. published \in Events
      BY <2>1, SizesAssumption DEF TypeOK, Events, Subscribed
    <3>2. /\ Queue(c) = channel[c] \o <<published>>
          /\ Queue(c)' = Tail(channel[c]) \o <<published>>
      BY <1>1, <1>2, <2>1 DEF Queue
    <3>3. /\ Tail(channel[c] \o <<published>>) = Tail(channel[c]) \o <<published>>
          /\ Head(channel[c] \o <<published>>) = Head(channel[c])
          /\ channel[c] \o <<published>> # <<>>
      BY <1>1, <3>1, MoreBehind
    <3> QED BY <3>2, <3>3
  <2>2. CASE c \notin publisher.todo
    <3>1. Queue(c) = channel[c] \o <<>> /\ Queue(c)' = Tail(channel[c]) \o <<>>
      BY <1>1, <1>2, <2>2 DEF Queue
    <3>2. Queue(c) = channel[c] /\ Queue(c)' = Tail(channel[c])
      BY <1>1, <3>1
    <3> QED BY <1>1, <3>2
  <2> QED BY <2>1, <2>2
<1>4. Late(c)' => Late(c)
  <2>1. HasRoom(c)'
    BY <1>1, SizesAssumption DEF HasRoom, TypeOK
  <2>2. Late(c)' => /\ c \in publisher.todo /\ publisher.pc # "send" /\ publisher.to = c
                    /\ publisher.pc = "drop"
    BY <1>1, <2>1 DEF Late
  <2> QED BY <1>1, <1>2, <2>2 DEF Late
<1>5. ASSUME NEW b \in Connections
      PROVE  /\ Reader(b)' = Reader(b)
             /\ Queue(b)' = IF b = c THEN Tail(Queue(c)) ELSE Queue(b)
             /\ b # c => (Late(b)' <=> Late(b))
             /\ Late(c)' => Late(c)
  <2>1. CASE b = c
    BY <1>2, <1>3, <1>4, <2>1
  <2>2. CASE b # c
    BY <1>4, <2>2, OthersUnseen DEF HandlerStep
  <2> QED BY <2>1, <2>2
<1>6. sent' = [sent EXCEPT ![c] = Append(@, Head(Queue(c)))]
  BY <1>1, <1>3
<1> QED BY <1>1, <1>2, <1>3, <1>5, <1>6, FeedGives

LEMMA LeaveFeeds ==
    ASSUME TypeOK, NEW c \in Connections, Leave(c)
    PROVE  Feed!Quit(c)
<1>1. /\ handler[c] = "stream" /\ handler'[c] = "cancel"
      /\ UNCHANGED <<published, publisher, channel, sent>>
  BY DEF Leave, TypeOK
<1>2. Reader(c) = "reading" /\ Reader(c)' = "gone" /\ Queue(c)' = <<>> /\ ~Late(c)'
  BY <1>1 DEF Reader, Queue, Late, Reads
<1>3. ASSUME NEW b \in Connections
      PROVE  /\ Reader(b)' = IF b = c THEN "gone" ELSE Reader(b)
             /\ Queue(b)' = IF b = c THEN <<>> ELSE Queue(b)
             /\ Late(b)' <=> Late(b) /\ b # c
  <2>1. CASE b = c
    BY <1>2, <2>1
  <2>2. CASE b # c
    BY <2>2, OthersUnseen DEF HandlerStep
  <2> QED BY <2>1, <2>2
<1> QED BY <1>1, <1>2, <1>3, FeedQuits

(* A reader that is gone is not there to see the end of its handler. *)
LEMMA GoneUnseen ==
    ASSUME TypeOK, NEW c \in Connections, Unsubscribe(c) \/ CloseChannel(c)
    PROVE  UNCHANGED Feed!feedVars
<1>1. /\ handler[c] \in {"cancel", "close"} /\ handler'[c] \in {"close", "gone"}
      /\ UNCHANGED <<published, publisher, channel, sent>>
  BY DEF Unsubscribe, CloseChannel, TypeOK
<1>2. Reader(c)' = Reader(c) /\ Queue(c)' = Queue(c) /\ (Late(c)' <=> Late(c))
  BY <1>1 DEF Reader, Queue, Late, Reads
<1>3. ASSUME NEW b \in Connections
      PROVE  Reader(b)' = Reader(b) /\ Queue(b)' = Queue(b) /\ (Late(b)' <=> Late(b))
  <2>1. CASE b = c
    BY <1>2, <2>1
  <2>2. CASE b # c
    BY <2>2, OthersUnseen DEF HandlerStep
  <2> QED BY <2>1, <2>2
<1> QED BY <1>1, <1>3, FeedStutters

LEMMA InitFeed == Init => Feed!Init
<1> SUFFICES ASSUME Init PROVE Feed!Init
  OBVIOUS
<1>1. ASSUME NEW b \in Connections
      PROVE  Reader(b) = "new" /\ Queue(b) = <<>> /\ ~Late(b)
  BY DEF Init, Reader, Queue, Reads, Late, Unlocked
<1> QED BY <1>1 DEF Init, Feed!Init

LEMMA StepFeeds ==
    ASSUME TypeOK, Subscribed, Ordered, Unbroken, Attached, [Next]_vars
    PROVE  [Feed!Next]_(Feed!feedVars)
<1>1. CASE Publish
  BY <1>1, PublishFeeds DEF Feed!Next
<1>2. CASE PublisherStep
  BY <1>2, PublisherFeeds
<1>3. ASSUME NEW c \in Connections, HandlerStep(c) PROVE [Feed!Next]_(Feed!feedVars)
  <2>1. CASE Subscribe(c)
    BY <2>1, SubscribeFeeds DEF Feed!Next
  <2>2. CASE Backlog(c)
    BY <2>2, BacklogFeeds DEF Feed!Next
  <2>3. CASE Forward(c)
    BY <2>3, ForwardFeeds DEF Feed!Next
  <2>4. CASE Leave(c)
    BY <2>4, LeaveFeeds DEF Feed!Next
  <2>5. CASE Unsubscribe(c) \/ CloseChannel(c)
    BY <2>5, GoneUnseen
  <2> QED BY <1>3, <2>1, <2>2, <2>3, <2>4, <2>5 DEF HandlerStep
<1>4. CASE UNCHANGED vars
  <2>1. ASSUME NEW b \in Connections
        PROVE  Reader(b)' = Reader(b) /\ Queue(b)' = Queue(b) /\ (Late(b)' <=> Late(b))
    BY <1>4 DEF vars, Reader, Queue, Late, Reads, HasRoom
  <2> QED BY <1>4, <2>1, FeedStutters DEF vars
<1> QED BY <1>1, <1>2, <1>3, <1>4 DEF Next

(* runtime_api.go lines 58 to 107 and 301 to 332: whatever the number of streams
   and the sizes of ring and channels, to its readers the bus is an EventFeed. *)
THEOREM BusImplementsFeed == Spec => ImplementsFeed
<1>1. Init => TypeOK /\ Subscribed /\ Ordered /\ Unbroken /\ Attached /\ Feed!Init
  BY InitTypeOK, InitSubscribed, InitOrdered, InitUnbroken, InitAttached, InitFeed
<1>2. TypeOK /\ Subscribed /\ Ordered /\ Unbroken /\ Attached /\ [Next]_vars
        => /\ (TypeOK /\ Subscribed /\ Ordered /\ Unbroken /\ Attached)'
           /\ [Feed!Next]_(Feed!feedVars)
  BY StepTypeOK, StepSubscribed, StepOrdered, StepUnbroken, StepAttached, StepFeeds
<1> QED BY <1>1, <1>2, PTL DEF Spec, ImplementsFeed, Feed!Spec

=============================================================================
