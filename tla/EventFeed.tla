------------------------------ MODULE EventFeed ------------------------------
(***************************************************************************)
(* What the event bus promises the readers of its streams: each is a queue *)
(* of its own.  An event is published to all at once; a reader is given    *)
(* the latest events and then, in order, all that were published since it  *)
(* joined, except the oldest it has not read, one for each event published *)
(* when it has as many unread as a queue may hold.  RuntimeEvents          *)
(* implements this specification.                                          *)
(***************************************************************************)
EXTENDS Integers, Sequences

CONSTANTS
    Readers,
    Recent,         \* how many events a stream begins with
    Capacity,       \* how many events may be unread
    MaxPublished    \* bound: events published

VARIABLES
    published,   \* how many events were published
    reader,      \* whether a reader has joined, reads, or is gone
    queue,       \* what each is still to be given
    late,        \* readers whose queue was full when the last event came
    given        \* what each was given

feedVars == <<published, reader, queue, late, given>>

Init ==
    /\ published = 0
    /\ reader = [r \in Readers |-> "new"]
    /\ queue = [r \in Readers |-> <<>>]
    /\ late = {}
    /\ given = [r \in Readers |-> <<>>]

Listening == {r \in Readers : reader[r] \in {"joined", "reading"}}

Latest ==
    LET n == IF published < Recent THEN published ELSE Recent
    IN  [i \in 1 .. n |-> published - n + i]

(* The next event waits until no queue is longer than it may be. *)
Publish ==
    /\ published < MaxPublished
    /\ late = {}
    /\ published' = published + 1
    /\ queue' = [r \in Readers |->
                   IF r \in Listening THEN Append(queue[r], published + 1) ELSE queue[r]]
    /\ late' = {r \in Listening : Len(queue[r]) = Capacity}
    /\ UNCHANGED <<reader, given>>

(* The oldest goes, never the event just published. *)
Drop(r) ==
    /\ r \in late /\ Len(queue[r]) > 1
    /\ queue' = [queue EXCEPT ![r] = Tail(@)]
    /\ late' = late \ {r}
    /\ UNCHANGED <<published, reader, given>>

Join(r) ==
    /\ reader[r] = "new"
    /\ reader' = [reader EXCEPT ![r] = "joined"]
    /\ UNCHANGED <<published, queue, late, given>>

Begin(r) ==
    /\ reader[r] = "joined"
    /\ reader' = [reader EXCEPT ![r] = "reading"]
    /\ given' = [given EXCEPT ![r] = Latest]
    /\ UNCHANGED <<published, queue, late>>

(* It may be too late to save the event that would be dropped. *)
Give(r) ==
    /\ reader[r] = "reading" /\ queue[r] # <<>>
    /\ given' = [given EXCEPT ![r] = Append(@, Head(queue[r]))]
    /\ queue' = [queue EXCEPT ![r] = Tail(@)]
    /\ late' \in {late, late \ {r}}
    /\ UNCHANGED <<published, reader>>

Quit(r) ==
    /\ reader[r] = "reading"
    /\ reader' = [reader EXCEPT ![r] = "gone"]
    /\ queue' = [queue EXCEPT ![r] = <<>>]
    /\ late' = late \ {r}
    /\ UNCHANGED <<published, given>>

Next ==
    \/ Publish
    \/ \E r \in Readers : Drop(r) \/ Join(r) \/ Begin(r) \/ Give(r) \/ Quit(r)

Spec == Init /\ [][Next]_feedVars
=============================================================================
