---------------------------- MODULE LiveDashboard ----------------------------
(***************************************************************************)
(* The aggregate dashboard page, components/dashboard/LiveDashboard.tsx:   *)
(* a reader, React's effects, the interval that polls, the stream, and the *)
(* answers of an operator's feed, in any order.                            *)
(*                                                                         *)
(* A state update is visible at once; the effect runs at a later moment    *)
(* when its dependencies have changed.  An aborted request fails at the    *)
(* end of the task that aborts it, after everything else that task does,   *)
(* so the failure is part of the same action.  Feeds honour the threshold  *)
(* they are asked for.  Filters that only select what is rendered (time    *)
(* window, protocol, severity, markers, flows) are not state: the property *)
(* about the rendering ranges over them.                                   *)
(***************************************************************************)
EXTENDS DashboardView

CONSTANTS
    Snapshots,      \* what the feed may answer, of any threshold
    Thresholds,     \* the privacy thresholds among them
    Default,        \* the threshold without a snapshot (20)
    Regions         \* the regions of the map

ASSUME ThresholdsAssumption ==
    /\ Default \in Thresholds /\ None \notin Thresholds
    /\ None \notin [mode : {"auto", "poll", "off"}, threshold : Thresholds]
    /\ \A s \in Snapshots : s.threshold \in Thresholds

(* A snapshot is a record, and so is each of its regions. *)
ASSUME SnapshotsAssumption ==
    \A s \in Snapshots :
      /\ DOMAIN s = {"threshold", "generated", "regions", "inside", "outside", "protocols",
                    "release", "helpers", "flows", "activity"}
      /\ \A r \in DOMAIN s.regions :
           s.regions[r] = [status  |-> s.regions[r].status,  figures |-> s.regions[r].figures,
                           updated |-> s.regions[r].updated, count   |-> s.regions[r].count]

VARIABLES
    config,      \* the build: snapshot URL, stream URL, threshold in the URLs
    mounted,     \* the page is open
    public,      \* filters.privacyMode
    liveMode,    \* filters.liveMode
    page,        \* snapshot, status.mode and whether an error shows
    selected,    \* selectedRegionName
    tooltip,     \* the region the map's tooltip holds
    feed,        \* timer and stream: the two refs and what runs; the request
    ran          \* the dependencies the effect last ran for

vars == <<config, mounted, public, liveMode, page, selected, tooltip, feed, ran>>

Config ==
    [url : BOOLEAN, stream : {"none", "ok", "malformed"}, pinned : Thresholds \cup {None}]

Fresh == [snapshot |-> None, status |-> "off", error |-> FALSE]
Unavailable == [snapshot |-> None, status |-> "off", error |-> TRUE]

NoFeed == [timer |-> FALSE, intervals |-> 0, es |-> FALSE, streams |-> 0, request |-> None]

Init ==
    /\ config \in Config
    /\ mounted = FALSE
    /\ public = TRUE
    /\ liveMode = "auto"
    /\ page = Fresh
    /\ selected = None
    /\ tooltip = None
    /\ feed = NoFeed
    /\ ran = None

Threshold == IF page.snapshot = None THEN Default ELSE page.snapshot.threshold

Dependencies == [mode |-> liveMode, threshold |-> Threshold]

(* buildDashboardUrl keeps a threshold that the configured URL has. *)
Asked(threshold) == IF config.pinned = None THEN threshold ELSE config.pinned

(* Faulty variant: the tooltip outlives the map. *)
ShowKeepingTooltip(p) == page' = p /\ UNCHANGED tooltip

(* The map goes with the snapshot, and its tooltip with the map. *)
Show(p) ==
    /\ page' = p
    /\ tooltip' = IF p.snapshot = None THEN None ELSE tooltip

-----------------------------------------------------------------------------
(* Starting and stopping the feed *)

(* Faulty variant: stopAll forgets the interval. *)
StoppedButInterval(f) ==
    [f EXCEPT !.timer = FALSE, !.request = None,
              !.es = FALSE, !.streams = IF f.es THEN @ - 1 ELSE @]

Stopped(f) ==
    [timer     |-> FALSE,
     intervals |-> IF f.timer THEN f.intervals - 1 ELSE f.intervals,
     es        |-> FALSE,
     streams   |-> IF f.es THEN f.streams - 1 ELSE f.streams,
     request   |-> None]

(* loadOnce before its fetch is answered, on behalf of an effect that ran for
   the given threshold.  A request in flight is aborted, and fails. *)
Loading(f, threshold) ==
    IF config.url THEN [f EXCEPT !.request = Asked(threshold)] ELSE f

LoadingPage(p, f) ==
    IF ~config.url \/ f.request # None THEN Unavailable ELSE p

Polling(f, threshold) ==
    Loading([f EXCEPT !.timer = TRUE, !.intervals = @ + 1], threshold)

Streaming(f) == [f EXCEPT !.es = TRUE, !.streams = @ + 1]

(* The effect's body, the feed having been stopped. *)
StartedFeed(f, deps) ==
    CASE deps.mode = "off" -> f
      [] deps.mode = "auto" /\ config.stream = "ok" -> Streaming(f)
      [] deps.mode = "auto" /\ config.stream = "none" /\ ~config.url -> f
      [] OTHER -> Polling(f, deps.threshold)

StartedPage(deps) ==
    LET cleared == [page EXCEPT !.snapshot = None, !.error = FALSE]
    IN  CASE deps.mode = "off" -> [cleared EXCEPT !.status = "off"]
          [] deps.mode = "auto" /\ config.stream = "ok" -> [cleared EXCEPT !.status = "sse"]
          [] deps.mode = "auto" /\ config.stream = "none" /\ ~config.url ->
               [cleared EXCEPT !.status = "off"]
          [] OTHER -> IF config.url THEN cleared ELSE Unavailable

NeedEffect == mounted /\ ran # Dependencies

(* Cleanup of the last run and body of the next. *)
RunEffect ==
    /\ NeedEffect
    /\ feed' = StartedFeed(Stopped(feed), Dependencies)
    /\ Show(IF feed.request # None THEN Unavailable ELSE StartedPage(Dependencies))
    /\ ran' = Dependencies
    /\ UNCHANGED <<config, mounted, public, liveMode, selected>>

-----------------------------------------------------------------------------
(* The feed *)

Answer(s) ==
    /\ feed.request = s.threshold
    /\ Show([snapshot |-> s, status |-> "poll", error |-> FALSE])
    /\ feed' = [feed EXCEPT !.request = None]
    /\ UNCHANGED <<config, mounted, public, liveMode, selected, ran>>

(* No answer, not a 2xx, or not a snapshot. *)
Fail ==
    /\ feed.request # None
    /\ Show(Unavailable)
    /\ feed' = [feed EXCEPT !.request = None]
    /\ UNCHANGED <<config, mounted, public, liveMode, selected, ran>>

Tick ==
    /\ feed.intervals > 0
    /\ feed' = Loading(feed, ran.threshold)
    /\ Show(LoadingPage(page, feed))
    /\ UNCHANGED <<config, mounted, public, liveMode, selected, ran>>

StreamSnapshot(s) ==
    /\ feed.streams > 0
    /\ s.threshold = Asked(ran.threshold)
    /\ Show([page EXCEPT !.snapshot = s, !.error = FALSE])
    /\ UNCHANGED <<config, mounted, public, liveMode, selected, feed, ran>>

(* Faulty variant: the stream is closed and nothing follows it. *)
StreamErrorGivingUp ==
    /\ feed.streams > 0
    /\ feed' = [feed EXCEPT !.es = FALSE, !.streams = @ - 1]
    /\ UNCHANGED <<config, mounted, public, liveMode, page, selected, tooltip, ran>>

StreamError ==
    /\ feed.streams > 0
    /\ LET closed == IF feed.es THEN [feed EXCEPT !.es = FALSE, !.streams = @ - 1] ELSE feed
       IN  /\ feed' = Polling(closed, ran.threshold)
           /\ Show(LoadingPage(page, closed))
    /\ UNCHANGED <<config, mounted, public, liveMode, selected, ran>>

-----------------------------------------------------------------------------
(* The reader *)

Open ==
    /\ ~mounted
    /\ mounted' = TRUE
    /\ public' = TRUE
    /\ liveMode' = "auto"
    /\ page' = Fresh
    /\ selected' = None
    /\ tooltip' = None
    /\ ran' = None
    /\ UNCHANGED <<config, feed>>

(* The cleanup runs; what is left of the state is not shown any more. *)
Leave ==
    /\ mounted
    /\ mounted' = FALSE
    /\ feed' = IF ran = None THEN feed ELSE Stopped(feed)
    /\ page' = Fresh
    /\ selected' = None
    /\ tooltip' = None
    /\ ran' = None
    /\ UNCHANGED <<config, public, liveMode>>

SetLiveMode(m) ==
    /\ mounted
    /\ liveMode' = m
    /\ UNCHANGED <<config, mounted, public, page, selected, tooltip, feed, ran>>

TogglePrivacy ==
    /\ mounted
    /\ public' = ~public
    /\ UNCHANGED <<config, mounted, liveMode, page, selected, tooltip, feed, ran>>

OnMap(r) == mounted /\ page.snapshot # None /\ r \in DOMAIN page.snapshot.regions

Select(r) ==
    /\ OnMap(r)
    /\ selected' = r
    /\ UNCHANGED <<config, mounted, public, liveMode, page, tooltip, feed, ran>>

PointAt(r) ==
    /\ OnMap(r)
    /\ tooltip' = Tooltip(MapRegion(Filtered(page.snapshot, public), r, public))
    /\ UNCHANGED <<config, mounted, public, liveMode, page, selected, feed, ran>>

PointAway ==
    /\ tooltip # None
    /\ tooltip' = None
    /\ UNCHANGED <<config, mounted, public, liveMode, page, selected, feed, ran>>

-----------------------------------------------------------------------------
Reader ==
    \/ Open \/ Leave \/ TogglePrivacy \/ PointAway
    \/ \E m \in {"auto", "poll", "off"} : SetLiveMode(m)
    \/ \E r \in Regions : Select(r) \/ PointAt(r)

Operator == Fail \/ StreamError \/ \E s \in Snapshots : Answer(s) \/ StreamSnapshot(s)

Next == RunEffect \/ Tick \/ Operator \/ Reader

(* React runs its effects and the browser its intervals.  An operator's feed
   answers some requests before the next tick aborts them, and a stream that
   stays open delivers. *)
Spec ==
    /\ Init /\ [][Next]_vars
    /\ WF_vars(RunEffect)
    /\ WF_vars(Tick)
    /\ SF_vars(\E s \in Snapshots : Answer(s))
    /\ WF_vars(\E s \in Snapshots : StreamSnapshot(s))

-----------------------------------------------------------------------------
(* What the page's state, the refs and the runtime behind them can hold
   (LiveDashboard.tsx lines 31 to 52). *)
TypeOK ==
    /\ config \in Config
    /\ mounted \in BOOLEAN /\ public \in BOOLEAN
    /\ liveMode \in {"auto", "poll", "off"}
    /\ page \in [snapshot : Snapshots \cup {None}, status : {"poll", "sse", "off"},
                 error : BOOLEAN]
    /\ selected \in Regions \cup {None}
    /\ tooltip # None => page.snapshot # None
    /\ feed \in [timer : BOOLEAN, intervals : 0 .. 1, es : BOOLEAN, streams : 0 .. 1,
                 request : Thresholds \cup {None}]
    /\ ran = None \/ ran \in [mode : {"auto", "poll", "off"}, threshold : Thresholds]

(* Lines 71 to 84, 129 to 134, 149 to 155 and 221 to 224: whatever the reader
   switches and whenever the stream breaks, at most one interval or stream
   runs, it is the one stopAll will find, a request in flight belongs to the
   interval, none is left when the page is closed or its feed switched off, and
   a mode other than off is shown only while one runs. *)
OneFeed ==
    /\ feed.intervals = (IF feed.timer THEN 1 ELSE 0)
    /\ feed.streams = (IF feed.es THEN 1 ELSE 0)
    /\ ~(feed.timer /\ feed.es)
    /\ feed.request # None => feed.timer
    /\ feed.timer \/ feed.es => mounted /\ ran # None /\ ran.mode # "off"
    /\ mounted /\ page.status # "off" => feed.timer \/ feed.es

(* The regions of a snapshot that have too few samples to be shown. *)
Redacted(s) == {r \in DOMAIN s.regions : s.regions[r].count < s.threshold}

(* t is s with other statuses, figures and counts in its redacted regions. *)
DiffersInRedacted(s, t) ==
    /\ DOMAIN t.regions = DOMAIN s.regions
    /\ Redacted(t) = Redacted(s)
    /\ t = [s EXCEPT !.regions = t.regions]
    /\ \A r \in DOMAIN s.regions :
         IF r \in Redacted(s) THEN t.regions[r].updated = s.regions[r].updated
         ELSE t.regions[r] = s.regions[r]

(* Everything, and a narrow choice. *)
Options ==
    {[protocol |-> "all", severity |-> "all", window |-> 360, helpers |-> TRUE, flows |-> TRUE],
     [protocol |-> "tuic", severity |-> "warn", window |-> 90, helpers |-> FALSE, flows |-> FALSE]}

(* privacy-filter.ts and every panel: in privacy mode nothing that a view
   renders from the snapshot depends on the data of a region below the
   threshold, whatever is selected and filtered.  (The map's tooltip is not
   rendered from the snapshot: it keeps the copy it was given when the pointer
   came, also when privacy is switched on meanwhile.) *)
RedactedNeverShown ==
    page.snapshot # None /\ public =>
      \A t \in Snapshots : DiffersInRedacted(page.snapshot, t) =>
        \A view \in {"global", "releases"}, o \in Options :
          Rendered(view, page.snapshot, public, selected, page.snapshot.generated + 7, o)
            = Rendered(view, t, public, selected, page.snapshot.generated + 7, o)

(* Lines 94 to 116 and 136 to 176: with a snapshot URL, whose threshold is the
   page's own, failures, slow answers, a broken stream and a reader who
   switches between polling and streaming leave a page that shows the feed
   again and again. *)
FeedComesBack ==
    (config.url /\ config.pinned \in {None, Default} /\ <>[](mounted /\ liveMode # "off"))
      => []<>(page.snapshot # None)
=============================================================================
