--------------------------- MODULE RuntimeDashboard ---------------------------
(***************************************************************************)
(* The runtime page, components/dashboard/RuntimeDashboard.tsx, with the   *)
(* proxy routes of the site's server between it and the runtime API of an  *)
(* agent that stops and starts again.  The page merges events from three   *)
(* sources: the list it asks for when it opens, the backlog a stream       *)
(* begins with, and what is published later.                               *)
(*                                                                         *)
(* An event is what mergeEvents compares: its second, and what it says.    *)
(* The bus is that of module RuntimeEvents, here only its log; a page that *)
(* stalls until its channel overflows is examined there.  skipped and      *)
(* wiped are history variables for the properties.                         *)
(***************************************************************************)
EXTENDS Integers, Sequences, FiniteSets, Functions

CONSTANTS
    None,
    Statuses,     \* what the agent can say of its connection, "connecting" first
    Story,        \* an agent's events: what each says, and if it is a second later
    Backlog,      \* events the bus keeps and a stream begins with (100)
    MaxShown,     \* events the page keeps (120)
    Limit,        \* events the timeline shows (100)
    MaxStarts     \* bound: how often an agent is started

ASSUME PageAssumption ==
    /\ "connecting" \in Statuses
    /\ Backlog \in Nat \ {0} /\ MaxShown \in Nat \ {0} /\ Limit \in 1 .. MaxShown
    /\ MaxStarts \in Nat

(* The story is a sequence. *)
ASSUME StoryAssumption == Story \in Seq(Range(Story))

VARIABLES
    up,        \* the agent serves its runtime API
    starts,    \* how often it was started
    now,       \* the current second
    status,    \* what it says of its connection
    log,       \* what it published in this life
    open,      \* the page is open
    page,      \* the page's state, events and error
    initial,   \* the two requests of the page's effect
    refresh,   \* a request of the interval is in flight
    conn,      \* EventSource.readyState
    wire,      \* events sent by the stream, not yet handled
    skipped,   \* events of the log that had left the backlog unseen
    wiped      \* how many were published when the page forgot its events

vars == <<up, starts, now, status, log, open, page, initial, refresh, conn, wire,
          skipped, wiped>>

runtime == <<up, starts, now, status, log>>

Empty == [state |-> None, events |-> <<>>, error |-> FALSE]
NotAsked == [pc |-> "off", state |-> None, list |-> None]

Init ==
    /\ up \in BOOLEAN
    /\ starts = 0 /\ now = 1
    /\ status = "connecting"
    /\ log = <<>>
    /\ open = FALSE
    /\ page = Empty
    /\ initial = NotAsked
    /\ refresh = FALSE
    /\ conn = "closed"
    /\ wire = <<>>
    /\ skipped = {} /\ wiped = 0

-----------------------------------------------------------------------------
(* The agent *)

Ring == SubSeq(log, IF Len(log) > Backlog THEN Len(log) - Backlog + 1 ELSE 1, Len(log))

Publish ==
    /\ up /\ Len(log) < Len(Story)
    /\ now' = IF Story[Len(log) + 1].later THEN now + 1 ELSE now
    /\ LET e == [at |-> now', text |-> Story[Len(log) + 1].text]
       IN  /\ log' = Append(log, e)
           /\ wire' = IF conn = "open" THEN Append(wire, e) ELSE wire
    /\ UNCHANGED <<up, starts, status, open, page, initial, refresh, conn, skipped, wiped>>

SetStatus(s) ==
    /\ up /\ status # s
    /\ status' = s
    /\ UNCHANGED <<up, starts, now, log, open, page, initial, refresh, conn, wire,
                   skipped, wiped>>

Start ==
    /\ ~up /\ starts < MaxStarts
    /\ up' = TRUE
    /\ starts' = starts + 1
    /\ now' = now + 1
    /\ status' = "connecting"
    /\ log' = <<>>
    /\ skipped' = {} /\ wiped' = 0
    /\ UNCHANGED <<open, page, initial, refresh, conn, wire>>

(* The stream ends with it; what was on the wire may still arrive or not. *)
Stop ==
    /\ up
    /\ up' = FALSE
    /\ wire' \in {wire, <<>>}
    /\ conn' = IF conn = "open" THEN "connecting" ELSE conn
    /\ page' = IF conn = "open" THEN [page EXCEPT !.error = TRUE] ELSE page
    /\ UNCHANGED <<starts, now, status, log, open, initial, refresh, skipped, wiped>>

-----------------------------------------------------------------------------
(* mergeEvents *)

Both(prev, incoming) == incoming \o prev

(* The first of those with one key. *)
Kept(c) == {i \in DOMAIN c : \A j \in 1 .. (i - 1) : c[j] # c[i]}

(* The sort is by descending second, and stable. *)
Before(c, i) ==
    {j \in Kept(c) : c[j].at > c[i].at \/ (c[j].at = c[i].at /\ j < i)}

(* Faulty variant: the sort is by ascending second. *)
MergedAscending(prev, incoming) ==
    LET c == Both(prev, incoming)
        n == Cardinality(Kept(c))
        After(i) == {j \in Kept(c) : c[j].at < c[i].at \/ (c[j].at = c[i].at /\ j < i)}
    IN  [k \in 1 .. (IF n < MaxShown THEN n ELSE MaxShown) |->
           c[CHOOSE i \in Kept(c) : Cardinality(After(i)) = k - 1]]

(* Faulty variant: the list is not cut. *)
MergedUncut(prev, incoming) ==
    LET c == Both(prev, incoming)
    IN  [k \in 1 .. Cardinality(Kept(c)) |->
           c[CHOOSE i \in Kept(c) : Cardinality(Before(c, i)) = k - 1]]

Merged(prev, incoming) ==
    LET c == Both(prev, incoming)
        n == Cardinality(Kept(c))
    IN  [k \in 1 .. (IF n < MaxShown THEN n ELSE MaxShown) |->
           c[CHOOSE i \in Kept(c) : Cardinality(Before(c, i)) = k - 1]]

-----------------------------------------------------------------------------
(* The effect of the page and its two first requests *)

Open ==
    /\ ~open
    /\ open' = TRUE
    /\ page' = Empty
    /\ initial' = [pc |-> "waiting", state |-> None, list |-> None]
    /\ conn' = "connecting"
    /\ wire' = <<>>
    /\ UNCHANGED <<runtime, refresh, skipped, wiped>>

Leave ==
    /\ open
    /\ open' = FALSE
    /\ conn' = "closed"
    /\ wire' = <<>>
    /\ initial' = NotAsked
    /\ refresh' = FALSE
    /\ page' = Empty
    /\ skipped' = {} /\ wiped' = 0
    /\ UNCHANGED runtime

(* /api/proxy/state and /api/proxy/events/list pass on what the runtime says
   when it answers; otherwise they say 503, which is a failure. *)
ProxyState ==
    /\ initial.pc = "waiting" /\ initial.state = None
    /\ up
    /\ initial' = [initial EXCEPT !.state = status]
    /\ UNCHANGED <<runtime, open, page, refresh, conn, wire, skipped, wiped>>

ProxyList ==
    /\ initial.pc = "waiting" /\ initial.list = None
    /\ up
    /\ initial' = [initial EXCEPT !.list = Ring]
    /\ UNCHANGED <<runtime, open, page, refresh, conn, wire, skipped, wiped>>

(* Faulty variant: the list replaces what the stream brought. *)
InitialReplaces ==
    /\ initial.pc = "waiting" /\ initial.state # None /\ initial.list # None
    /\ page' = [state |-> initial.state, events |-> Merged(<<>>, initial.list), error |-> FALSE]
    /\ initial' = [NotAsked EXCEPT !.pc = "done"]
    /\ UNCHANGED <<runtime, open, refresh, conn, wire, skipped, wiped>>

InitialDone ==
    /\ initial.pc = "waiting" /\ initial.state # None /\ initial.list # None
    /\ page' = [state |-> initial.state, events |-> Merged(page.events, initial.list),
                error |-> FALSE]
    /\ initial' = [NotAsked EXCEPT !.pc = "done"]
    /\ UNCHANGED <<runtime, open, refresh, conn, wire, skipped, wiped>>

(* Either request fails or does not answer in time. *)
InitialFailed ==
    /\ initial.pc = "waiting"
    /\ page' = [state |-> None, events |-> <<>>, error |-> TRUE]
    /\ initial' = [NotAsked EXCEPT !.pc = "done"]
    /\ wiped' = Len(log)
    /\ UNCHANGED <<runtime, open, refresh, conn, wire, skipped>>

-----------------------------------------------------------------------------
(* The interval.  The first requests have long timed out when it first ticks. *)

(* Faulty variant: a page that has a state asks no more. *)
TickUntilKnown ==
    /\ open /\ initial.pc = "done" /\ ~refresh /\ page.state = None
    /\ refresh' = TRUE
    /\ UNCHANGED <<runtime, open, page, initial, conn, wire, skipped, wiped>>

Tick ==
    /\ open /\ initial.pc = "done" /\ ~refresh
    /\ refresh' = TRUE
    /\ UNCHANGED <<runtime, open, page, initial, conn, wire, skipped, wiped>>

Refreshed ==
    /\ refresh /\ up
    /\ page' = [page EXCEPT !.state = status, !.error = FALSE]
    /\ refresh' = FALSE
    /\ UNCHANGED <<runtime, open, initial, conn, wire, skipped, wiped>>

RefreshFailed ==
    /\ refresh
    /\ page' = [page EXCEPT !.state = None, !.error = TRUE]
    /\ refresh' = FALSE
    /\ UNCHANGED <<runtime, open, initial, conn, wire, skipped, wiped>>

-----------------------------------------------------------------------------
(* The stream *)

Seen == {i \in DOMAIN log : log[i] \in Range(page.events) \cup Range(wire)}

(* /api/proxy/events passes the body on: the backlog first.  A browser waits
   seconds before it connects again, and has handled what it had by then. *)
StreamOpens ==
    /\ conn = "connecting" /\ up /\ wire = <<>>
    /\ conn' = "open"
    /\ wire' = Ring
    /\ skipped' = skipped \cup ((1 .. Len(log) - Len(Ring)) \ Seen)
    /\ UNCHANGED <<runtime, open, page, initial, refresh, wiped>>

(* It answers 503: an EventSource gives up on anything but 200. *)
StreamRefused ==
    /\ conn = "connecting" /\ ~up /\ wire = <<>>
    /\ conn' = "closed"
    /\ page' = [page EXCEPT !.error = TRUE]
    /\ UNCHANGED <<runtime, open, initial, refresh, wire, skipped, wiped>>

(* The connection breaks, and the browser connects again. *)
StreamBreaks ==
    /\ conn = "open"
    /\ conn' = "connecting"
    /\ \E n \in 0 .. Len(wire) : wire' = SubSeq(wire, 1, n)
    /\ page' = [page EXCEPT !.error = TRUE]
    /\ UNCHANGED <<runtime, open, initial, refresh, skipped, wiped>>

(* Faulty variant: only what is later than all the page has. *)
MessageLater ==
    /\ wire # <<>>
    /\ page' = IF \A e \in Range(page.events) : e.at < Head(wire).at
               THEN [page EXCEPT !.events = Merged(@, <<Head(wire)>>), !.error = FALSE]
               ELSE page
    /\ wire' = Tail(wire)
    /\ UNCHANGED <<runtime, open, initial, refresh, conn, skipped, wiped>>

Message ==
    /\ wire # <<>>
    /\ page' = [page EXCEPT !.events = Merged(@, <<Head(wire)>>), !.error = FALSE]
    /\ wire' = Tail(wire)
    /\ UNCHANGED <<runtime, open, initial, refresh, conn, skipped, wiped>>

-----------------------------------------------------------------------------
Agent ==
    \/ Start \/ Stop \/ Publish
    \/ \E s \in Statuses : SetStatus(s)

Stream == StreamOpens \/ StreamRefused \/ StreamBreaks \/ Message

Requests == ProxyState \/ ProxyList \/ InitialDone \/ InitialFailed \/ Refreshed \/ RefreshFailed

Next == Agent \/ Open \/ Leave \/ Requests \/ Tick \/ Stream

(* Requests are answered or time out, of a runtime that is up some are
   answered; the interval ticks and the browser handles its stream. *)
Spec ==
    /\ Init /\ [][Next]_vars
    /\ WF_vars(InitialDone \/ InitialFailed)
    /\ WF_vars(Tick) /\ WF_vars(RefreshFailed \/ Refreshed) /\ SF_vars(Refreshed)
    /\ WF_vars(StreamOpens \/ StreamRefused) /\ WF_vars(Message)

-----------------------------------------------------------------------------
(* What the page shows *)

Badge ==
    CASE page.state = "connected" -> "CONNECTED"
      [] page.state = "connecting" -> "CONNECTING"
      [] page.state \in {"error", "failed"} -> "ERROR"
      [] OTHER -> "DISCONNECTED"

Secure == Badge = "CONNECTED"

Timeline == SubSeq(page.events, 1, IF Len(page.events) < Limit THEN Len(page.events) ELSE Limit)

LastEvent == IF page.state = None \/ page.events = <<>> THEN None ELSE page.events[1]

-----------------------------------------------------------------------------
Event == [at : Nat, text : {Story[i].text : i \in DOMAIN Story}]

(* What agent, page and stream can hold (RuntimeDashboard.tsx lines 24 to 28). *)
TypeOK ==
    /\ up \in BOOLEAN /\ open \in BOOLEAN /\ refresh \in BOOLEAN
    /\ status \in Statuses
    /\ log \in Seq(Event) /\ wire \in Seq(Event) /\ page.events \in Seq(Event)
    /\ page.state \in Statuses \cup {None} /\ page.error \in BOOLEAN
    /\ Len(page.events) <= MaxShown
    /\ initial.pc \in {"off", "waiting", "done"}
    /\ conn \in {"connecting", "open", "closed"}
    /\ ~open => conn = "closed" /\ wire = <<>> /\ page = Empty

(* Lines 38 to 46, in whatever order list, backlog and new events arrive: the
   timeline never goes back in time and shows no event twice, and the last
   event of the page is one of the newest second it has. *)
TimelineInOrder ==
    /\ \A i, j \in DOMAIN Timeline : i < j =>
         Timeline[i].at >= Timeline[j].at /\ Timeline[i] # Timeline[j]
    /\ LastEvent # None => \A e \in Range(page.events) : e.at <= LastEvent.at

(* An event that no other of this life could be taken for. *)
Distinct(i) == \A j \in DOMAIN log : log[j] = log[i] => j = i

(* Lines 69 to 99 and the backlog of the stream: while the page has a stream
   no event is missing between two of an agent that are shown or still on the
   wire, except those of which more than the backlog holds were published
   while it had none, and those of the oldest second that a full list cuts. *)
NoHole ==
    conn = "open" =>
    \A i, k \in Seen, j \in DOMAIN log : i < j /\ j < k /\ Distinct(i) /\ Distinct(k) =>
      \/ j \in Seen \cup skipped
      \/ Len(page.events) = MaxShown /\ log[j].at <= page.events[MaxShown].at

(* Lines 48 to 62 and 102: an open page comes to show whatever status the
   agent keeps, also when the agent was started after the page; once the agent
   is gone for good the page no longer calls the connection secure, and says
   that the runtime is missing. *)
StatusShows ==
    /\ \A s \in Statuses : <>[](open /\ up /\ status = s) => []<>(page.state = s)
    /\ <>[](open /\ ~up) => <>[](~Secure /\ page.state = None /\ page.error)

(* Lines 85 to 95: while a stream stays open the newest event gets to the page
   without a poll, unless the first requests fail after it came: what the page
   then forgets (line 77) does not come back this way. *)
NewestShows ==
    <>[](open /\ conn = "open") =>
      []<>(Len(log) = wiped \/ log[Len(log)] \in Range(page.events))
=============================================================================
