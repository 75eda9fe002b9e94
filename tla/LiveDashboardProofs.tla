------------------------- MODULE LiveDashboardProofs -------------------------
(***************************************************************************)
(* What holds of the aggregate dashboard whatever its feed answers: at     *)
(* most one feed runs and the page knows it, and in privacy mode the page  *)
(* is the same for any two snapshots that differ only in regions with too  *)
(* few samples.                                                            *)
(***************************************************************************)
EXTENDS LiveDashboard, TLAPS

(* The effect's dependencies and the threshold it asks for are ones that the
   page can have. *)
LEMMA DependenciesTyped ==
    ASSUME TypeOK PROVE Dependencies \in [mode : {"auto", "poll", "off"}, threshold : Thresholds]
BY ThresholdsAssumption DEF TypeOK, Dependencies, Threshold

(* buildDashboardUrl asks for one of the thresholds. *)
LEMMA AskedTyped ==
    ASSUME TypeOK, NEW t \in Thresholds PROVE Asked(t) \in Thresholds
BY DEF TypeOK, Asked, Config

Feeds ==
    [timer : BOOLEAN, intervals : 0 .. 1, es : BOOLEAN, streams : 0 .. 1,
     request : Thresholds \cup {None}]

Pages == [snapshot : Snapshots \cup {None}, status : {"poll", "sse", "off"}, error : BOOLEAN]

(* stopAll, with the refs in order, leaves nothing running. *)
LEMMA StoppedIsNoFeed ==
    ASSUME TypeOK, OneFeed PROVE Stopped(feed) = NoFeed
BY DEF TypeOK, OneFeed, Stopped, NoFeed

(* The parts of OneFeed that concern the feed alone. *)
Single(f) ==
    /\ f.intervals = (IF f.timer THEN 1 ELSE 0)
    /\ f.streams = (IF f.es THEN 1 ELSE 0)
    /\ ~(f.timer /\ f.es)
    /\ f.request # None => f.timer

(* Setting up a timer where none runs is a single feed, with the request that
   loadOnce makes. *)
LEMMA PollingTyped ==
    ASSUME TypeOK, NEW f \in Feeds, Single(f), ~f.timer, ~f.es, NEW t \in Thresholds
    PROVE  /\ Polling(f, t) \in Feeds
           /\ Single(Polling(f, t))
           /\ Polling(f, t).timer
<1>1. Asked(t) \in Thresholds /\ Asked(t) # None
  BY AskedTyped, ThresholdsAssumption
<1> DEFINE h == [f EXCEPT !.timer = TRUE]
           g == [h EXCEPT !.intervals = 1]
<1>2. [f EXCEPT !.timer = TRUE, !.intervals = @ + 1] = g
  <2>1. f.intervals = 0
    BY DEF Single
  <2>2. QED
    BY <2>1 DEF Feeds
<1>3. h \in Feeds
  BY DEF Feeds
<1>4. /\ g.timer /\ ~g.es /\ g.intervals = 1 /\ g.streams = 0
  BY DEF Feeds, Single
<1> HIDE DEF h
<1>5. g \in Feeds
  BY <1>3 DEF Feeds
<1> HIDE DEF g
<1>6. CASE config.url
  <2>1. Polling(f, t) = [g EXCEPT !.request = Asked(t)]
    BY <1>2, <1>6 DEF Polling, Loading
  <2>2. [g EXCEPT !.request = Asked(t)] \in Feeds
    BY <1>1, <1>5 DEF Feeds
  <2>3. QED
    BY <1>4, <1>5, <2>1, <2>2 DEF Feeds, Single
<1>7. CASE ~config.url
  <2>1. Polling(f, t) = g
    BY <1>2, <1>7 DEF Polling, Loading
  <2>2. QED
    BY <1>4, <1>5, <2>1 DEF Single
<1>8. QED
  BY <1>6, <1>7

(* What the effect starts is a single feed, and it runs only in a mode other
   than off. *)
LEMMA StartedTyped ==
    ASSUME TypeOK,
           NEW deps \in [mode : {"auto", "poll", "off"}, threshold : Thresholds]
    PROVE  /\ StartedFeed(NoFeed, deps) \in Feeds
           /\ Single(StartedFeed(NoFeed, deps))
           /\ StartedFeed(NoFeed, deps).timer \/ StartedFeed(NoFeed, deps).es
                => deps.mode # "off"
           /\ StartedPage(deps) \in Pages
           /\ StartedPage(deps).snapshot = None
           /\ StartedPage(deps).status # "off"
                => StartedFeed(NoFeed, deps).timer \/ StartedFeed(NoFeed, deps).es
<1>1. NoFeed \in Feeds /\ Single(NoFeed) /\ ~NoFeed.timer /\ ~NoFeed.es
  BY DEF NoFeed, Feeds, Single
<1>2. /\ Polling(NoFeed, deps.threshold) \in Feeds
      /\ Single(Polling(NoFeed, deps.threshold))
      /\ Polling(NoFeed, deps.threshold).timer
  BY <1>1, PollingTyped
<1>3. /\ Streaming(NoFeed) \in Feeds
      /\ Single(Streaming(NoFeed))
      /\ Streaming(NoFeed).es
  <2> DEFINE h == [NoFeed EXCEPT !.es = TRUE]
  <2>1. Streaming(NoFeed) = [h EXCEPT !.streams = 1]
    BY DEF NoFeed, Streaming
  <2>2. /\ ~h.timer /\ h.es /\ h.intervals = 0 /\ h.request = None
    BY DEF NoFeed
  <2>3. h \in Feeds
    BY <1>1 DEF Feeds
  <2> HIDE DEF h
  <2>4. [h EXCEPT !.streams = 1] \in Feeds
    BY <2>3 DEF Feeds
  <2>5. QED
    BY <2>1, <2>2, <2>3, <2>4 DEF Feeds, Single
<1>4. page \in Pages
  BY DEF TypeOK, Pages
<1>5. /\ StartedPage(deps) \in Pages
      /\ StartedPage(deps).snapshot = None
  BY <1>4 DEF StartedPage, Pages, Unavailable
<1>6. CASE deps.mode = "off"
  BY <1>1, <1>4, <1>5, <1>6 DEF StartedFeed, StartedPage, Pages
<1>7. CASE deps.mode # "off" /\ deps.mode = "auto" /\ config.stream = "ok"
  BY <1>3, <1>5, <1>7 DEF StartedFeed
<1>8. CASE deps.mode # "off" /\ deps.mode = "auto" /\ config.stream = "none" /\ ~config.url
  BY <1>1, <1>4, <1>5, <1>8 DEF StartedFeed, StartedPage, Pages
<1>9. CASE /\ deps.mode # "off"
           /\ ~(deps.mode = "auto" /\ config.stream = "ok")
           /\ ~(deps.mode = "auto" /\ config.stream = "none" /\ ~config.url)
  <2>1. StartedFeed(NoFeed, deps) = Polling(NoFeed, deps.threshold)
    BY <1>9 DEF StartedFeed
  <2>2. QED
    BY <1>2, <1>5, <1>9, <2>1
<1>10. QED
  BY <1>6, <1>7, <1>8, <1>9

-----------------------------------------------------------------------------
(* Every action keeps TypeOK and OneFeed *)

LEMMA ShowTyped ==
    ASSUME NEW p, Show(p), p \in Pages
    PROVE  page' = p /\ (tooltip' # None => page'.snapshot # None)
BY DEF Show

(* An action that changes only the page and the request. *)
LEMMA PageStep ==
    ASSUME TypeOK, OneFeed, NEW p \in Pages, Show(p),
           p.status # "off" => feed.timer \/ feed.es,
           NEW q \in Thresholds \cup {None}, q # None => feed.timer,
           feed' = [feed EXCEPT !.request = q],
           UNCHANGED <<config, mounted, public, liveMode, selected, ran>>
    PROVE  TypeOK' /\ OneFeed'
<1>1. feed \in Feeds
  BY DEF TypeOK, Feeds
<1>2. feed' \in Feeds
  BY <1>1 DEF Feeds
<1>3. /\ feed'.timer = feed.timer /\ feed'.es = feed.es
      /\ feed'.intervals = feed.intervals /\ feed'.streams = feed.streams
      /\ feed'.request = q
  BY <1>1 DEF Feeds
<1>4. page' = p /\ (tooltip' # None => page'.snapshot # None)
  BY ShowTyped
<1>5. TypeOK'
  BY <1>2, <1>4 DEF TypeOK, Feeds, Pages
<1>6. OneFeed'
  BY <1>3, <1>4 DEF OneFeed
<1>7. QED
  BY <1>5, <1>6

LEMMA InitTyped == Init => TypeOK /\ OneFeed
<1> SUFFICES ASSUME Init PROVE TypeOK /\ OneFeed
  OBVIOUS
<1>1. Fresh \in Pages /\ NoFeed \in Feeds
  BY DEF Fresh, NoFeed, Pages, Feeds
<1>2. TypeOK
  BY <1>1 DEF Init, TypeOK, Pages, Feeds
<1>3. OneFeed
  BY DEF Init, OneFeed, NoFeed
<1>4. QED
  BY <1>2, <1>3

LEMMA RunEffectTyped ==
    ASSUME TypeOK, OneFeed, RunEffect PROVE TypeOK' /\ OneFeed'
<1> DEFINE deps == Dependencies
           f == StartedFeed(NoFeed, deps)
           p == IF feed.request # None THEN Unavailable ELSE StartedPage(deps)
<1>1. deps \in [mode : {"auto", "poll", "off"}, threshold : Thresholds]
  BY DependenciesTyped
<1>2. /\ f \in Feeds /\ Single(f) /\ (f.timer \/ f.es => deps.mode # "off")
      /\ StartedPage(deps) \in Pages
      /\ StartedPage(deps).status # "off" => f.timer \/ f.es
  BY <1>1, StartedTyped
<1>3. p \in Pages /\ (p.status # "off" => f.timer \/ f.es)
  BY <1>2 DEF Unavailable, Pages
<1>4. feed' = f /\ Show(p) /\ ran' = deps /\ mounted
  BY StoppedIsNoFeed DEF RunEffect, NeedEffect
<1>5. page' = p /\ (tooltip' # None => page'.snapshot # None)
  BY <1>3, <1>4, ShowTyped
<1>6. ran' # None
  BY <1>1, <1>4, ThresholdsAssumption
<1> HIDE DEF deps, f, p
<1>7. TypeOK'
  BY <1>1, <1>2, <1>3, <1>4, <1>5 DEF TypeOK, Feeds, Pages, RunEffect
<1>8. OneFeed'
  BY <1>2, <1>3, <1>4, <1>5, <1>6 DEF OneFeed, Single, RunEffect
<1>9. QED
  BY <1>7, <1>8

LEMMA AnswerTyped ==
    ASSUME TypeOK, OneFeed, NEW s \in Snapshots, Answer(s) PROVE TypeOK' /\ OneFeed'
<1> DEFINE p == [snapshot |-> s, status |-> "poll", error |-> FALSE]
<1>1. p \in Pages
  BY DEF Pages
<1>2. feed.timer
  BY ThresholdsAssumption DEF Answer, OneFeed
<1>3. QED
  BY <1>1, <1>2, PageStep DEF Answer

LEMMA FailTyped ==
    ASSUME TypeOK, OneFeed, Fail PROVE TypeOK' /\ OneFeed'
<1>1. Unavailable \in Pages /\ Unavailable.status = "off"
  BY DEF Unavailable, Pages
<1>2. QED
  BY <1>1, PageStep DEF Fail

(* What loadOnce shows for a page that is in order. *)
LEMMA LoadingPageTyped ==
    ASSUME TypeOK, NEW f
    PROVE  LoadingPage(page, f) \in Pages /\ LoadingPage(page, f).status \in {"off", page.status}
BY DEF TypeOK, LoadingPage, Unavailable, Pages

LEMMA TickTyped ==
    ASSUME TypeOK, OneFeed, Tick PROVE TypeOK' /\ OneFeed'
<1> DEFINE q == IF config.url THEN Asked(ran.threshold) ELSE feed.request
<1>1. feed.timer
  BY DEF Tick, OneFeed
<1>2. ran.threshold \in Thresholds
  BY <1>1 DEF OneFeed, TypeOK
<1>3. Asked(ran.threshold) \in Thresholds
  BY <1>2, AskedTyped
<1>4. q \in Thresholds \cup {None}
  BY <1>3 DEF TypeOK
<1>5. feed' = [feed EXCEPT !.request = q]
  BY DEF Tick, Loading, TypeOK
<1>6. /\ LoadingPage(page, feed) \in Pages
      /\ LoadingPage(page, feed).status # "off" => feed.timer \/ feed.es
  BY <1>1, LoadingPageTyped
<1>7. QED
  BY <1>1, <1>4, <1>5, <1>6, PageStep DEF Tick

LEMMA StreamSnapshotTyped ==
    ASSUME TypeOK, OneFeed, NEW s \in Snapshots, StreamSnapshot(s)
    PROVE  TypeOK' /\ OneFeed'
<1> DEFINE p == [page EXCEPT !.snapshot = s, !.error = FALSE]
<1>1. page \in Pages
  BY DEF TypeOK, Pages
<1> DEFINE h == [page EXCEPT !.error = FALSE]
<1>2. p = [h EXCEPT !.snapshot = s] /\ h.status = page.status
  BY <1>1 DEF Pages
<1>3. p \in Pages
  <2>1. h \in Pages
    BY <1>1 DEF Pages
  <2> HIDE DEF h
  <2>2. [h EXCEPT !.snapshot = s] \in Pages
    BY <2>1 DEF Pages
  <2>3. QED
    BY <1>2, <2>2
<1>4. p.status # "off" => feed.timer \/ feed.es
  BY <1>1, <1>2 DEF StreamSnapshot, OneFeed, Pages
<1>5. feed' = [feed EXCEPT !.request = feed.request]
  BY DEF StreamSnapshot, TypeOK
<1>6. feed.request \in Thresholds \cup {None} /\ (feed.request # None => feed.timer)
  BY DEF TypeOK, OneFeed
<1>7. QED
  BY <1>3, <1>4, <1>5, <1>6, PageStep DEF StreamSnapshot

LEMMA StreamErrorTyped ==
    ASSUME TypeOK, OneFeed, StreamError PROVE TypeOK' /\ OneFeed'
<1> DEFINE closed == [[feed EXCEPT !.es = FALSE] EXCEPT !.streams = 0]
           f == Polling(closed, ran.threshold)
           p == LoadingPage(page, closed)
<1>1. feed \in Feeds /\ feed.es /\ feed.streams = 1 /\ ~feed.timer
  BY DEF StreamError, TypeOK, Feeds, OneFeed
<1>2. mounted /\ ran # None /\ ran.mode # "off" /\ ran.threshold \in Thresholds
  BY <1>1 DEF OneFeed, TypeOK
<1>3. [feed EXCEPT !.es = FALSE, !.streams = @ - 1] = closed
  BY <1>1 DEF Feeds
<1>4. closed \in Feeds /\ Single(closed) /\ ~closed.timer /\ ~closed.es
  <2> DEFINE h == [feed EXCEPT !.es = FALSE]
  <2>1. h \in Feeds
    BY <1>1 DEF Feeds
  <2>2. ~h.es /\ ~h.timer /\ h.intervals = 0 /\ h.request = None
    BY <1>1 DEF Feeds, OneFeed
  <2> HIDE DEF h
  <2>3. [h EXCEPT !.streams = 0] \in Feeds
    BY <2>1 DEF Feeds
  <2>4. Single([h EXCEPT !.streams = 0]) /\ ~[h EXCEPT !.streams = 0].timer
    BY <2>1, <2>2 DEF Feeds, Single
  <2>5. ~[h EXCEPT !.streams = 0].es
    BY <2>1, <2>2 DEF Feeds
  <2>6. QED
    BY <2>3, <2>4, <2>5 DEF h
<1>5. f \in Feeds /\ Single(f) /\ f.timer
  BY <1>2, <1>4, PollingTyped
<1>6. feed' = f /\ Show(p)
  BY <1>1, <1>3 DEF StreamError
<1>7. p \in Pages
  BY LoadingPageTyped
<1>8. page' = p /\ (tooltip' # None => page'.snapshot # None)
  BY <1>6, <1>7, ShowTyped
<1> HIDE DEF f, p, closed
<1>9. TypeOK'
  BY <1>5, <1>6, <1>7, <1>8 DEF TypeOK, Feeds, Pages, StreamError
<1>10. OneFeed'
  BY <1>2, <1>5, <1>6 DEF OneFeed, Single, StreamError
<1>11. QED
  BY <1>9, <1>10

LEMMA OpenTyped ==
    ASSUME TypeOK, OneFeed, Open PROVE TypeOK' /\ OneFeed'
<1>1. Fresh \in Pages /\ Fresh.status = "off"
  BY DEF Fresh, Pages
<1>2. TypeOK'
  BY <1>1 DEF TypeOK, Pages, Open
<1>3. OneFeed'
  BY <1>1 DEF OneFeed, Open
<1>4. QED
  BY <1>2, <1>3

LEMMA LeaveTyped ==
    ASSUME TypeOK, OneFeed, Leave PROVE TypeOK' /\ OneFeed'
<1>1. Fresh \in Pages
  BY DEF Fresh, Pages
<1>2. /\ feed' \in Feeds /\ Single(feed')
      /\ ~feed'.timer /\ ~feed'.es
  <2>1. NoFeed \in Feeds /\ Single(NoFeed) /\ ~NoFeed.timer /\ ~NoFeed.es
    BY DEF NoFeed, Feeds, Single
  <2>2. feed \in Feeds /\ Single(feed) /\ (ran = None => ~feed.timer /\ ~feed.es)
    BY DEF TypeOK, OneFeed, Feeds, Single
  <2>3. feed' = IF ran = None THEN feed ELSE NoFeed
    BY StoppedIsNoFeed DEF Leave
  <2>4. QED
    BY <2>1, <2>2, <2>3
<1>3. TypeOK'
  BY <1>1, <1>2 DEF TypeOK, Feeds, Pages, Leave
<1>4. OneFeed'
  BY <1>2 DEF OneFeed, Single, Leave
<1>5. QED
  BY <1>3, <1>4

(* The reader's other actions touch neither the feed nor the page. *)
LEMMA ReaderTyped ==
    ASSUME TypeOK, OneFeed,
           \/ TogglePrivacy \/ PointAway
           \/ \E m \in {"auto", "poll", "off"} : SetLiveMode(m)
           \/ \E r \in Regions : Select(r) \/ PointAt(r)
    PROVE  TypeOK' /\ OneFeed'
<1>1. UNCHANGED <<config, mounted, page, feed, ran>>
  BY DEF TogglePrivacy, PointAway, SetLiveMode, Select, PointAt
<1>2. OneFeed'
  BY <1>1 DEF OneFeed
<1>3. /\ public' \in BOOLEAN /\ liveMode' \in {"auto", "poll", "off"}
      /\ selected' \in Regions \cup {None}
      /\ tooltip' # None => page'.snapshot # None
  BY DEF TypeOK, TogglePrivacy, PointAway, SetLiveMode, Select, PointAt, OnMap
<1>4. TypeOK'
  BY <1>1, <1>3 DEF TypeOK
<1>5. QED
  BY <1>2, <1>4

LEMMA NextTyped ==
    ASSUME TypeOK, OneFeed, [Next]_vars PROVE TypeOK' /\ OneFeed'
<1>1. CASE RunEffect
  BY <1>1, RunEffectTyped
<1>2. CASE Tick
  BY <1>2, TickTyped
<1>3. CASE Operator
  BY <1>3, FailTyped, StreamErrorTyped, AnswerTyped, StreamSnapshotTyped DEF Operator
<1>4. CASE Reader
  BY <1>4, OpenTyped, LeaveTyped, ReaderTyped DEF Reader
<1>5. CASE UNCHANGED vars
  BY <1>5 DEF vars, TypeOK, OneFeed
<1>6. QED
  BY <1>1, <1>2, <1>3, <1>4, <1>5 DEF Next

(* LiveDashboard.tsx lines 31 to 52: the page's state, the two refs and what
   runs behind them keep their types, whatever the feed answers. *)
THEOREM PageTyped == Spec => []TypeOK
<1>1. TypeOK /\ OneFeed /\ [Next]_vars => TypeOK' /\ OneFeed'
  BY NextTyped
<1>2. QED
  BY InitTyped, <1>1, PTL DEF Spec

(* LiveDashboard.tsx lines 71 to 84, 129 to 134 and 149 to 155: at most one
   interval or stream runs, and it is the one that stopAll will find. *)
THEOREM FeedIsOne == Spec => []OneFeed
<1>1. TypeOK /\ OneFeed /\ [Next]_vars => TypeOK' /\ OneFeed'
  BY NextTyped
<1>2. QED
  BY InitTyped, <1>1, PTL DEF Spec

-----------------------------------------------------------------------------
(* The privacy filter *)

(* Stripping forgets all of a region but the time of its last update. *)
LEMMA StripForgets ==
    ASSUME NEW x, NEW size,
           x = [status |-> x.status, figures |-> x.figures, updated |-> x.updated,
                count |-> x.count]
    PROVE  Strip(x, size) = [status |-> "unknown", figures |-> NoFigures,
                             updated |-> Bucket(x.updated, size), count |-> 0]
<1> DEFINE a == [x EXCEPT !.status = "unknown"]
           b == [a EXCEPT !.figures = NoFigures]
           c == [b EXCEPT !.updated = Bucket(x.updated, size)]
           d == [c EXCEPT !.count = 0]
<1>1. Strip(x, size) = d
  BY DEF Strip
<1>2. a = [status |-> "unknown", figures |-> x.figures, updated |-> x.updated,
           count |-> x.count]
  OBVIOUS
<1> HIDE DEF a
<1>3. b = [status |-> "unknown", figures |-> NoFigures, updated |-> x.updated,
           count |-> x.count]
  BY <1>2
<1> HIDE DEF b
<1>4. c = [status |-> "unknown", figures |-> NoFigures, updated |-> Bucket(x.updated, size),
           count |-> x.count]
  BY <1>3
<1> HIDE DEF c
<1>5. QED
  BY <1>1, <1>4

(* Two snapshots that differ in their redacted regions only are alike in
   everything else. *)
LEMMA OtherwiseAlike ==
    ASSUME NEW s \in Snapshots, NEW t \in Snapshots, DiffersInRedacted(s, t)
    PROVE  /\ t.threshold = s.threshold /\ t.generated = s.generated
           /\ t.inside = s.inside /\ t.outside = s.outside
           /\ t.protocols = s.protocols /\ t.release = s.release
           /\ t.helpers = s.helpers /\ t.flows = s.flows /\ t.activity = s.activity
<1>1. t = [s EXCEPT !.regions = t.regions]
  BY DEF DiffersInRedacted
<1>2. DOMAIN s = {"threshold", "generated", "regions", "inside", "outside", "protocols",
                  "release", "helpers", "flows", "activity"}
  BY SnapshotsAssumption
<1>3. \A f \in DOMAIN s : f # "regions" => t[f] = s[f]
  BY <1>1
<1>4. QED
  BY <1>2, <1>3

LEMMA RegionsAlike ==
    ASSUME NEW s \in Snapshots, NEW t \in Snapshots, DiffersInRedacted(s, t)
    PROVE  FilteredRegions(t.regions, TRUE, t.threshold)
             = FilteredRegions(s.regions, TRUE, s.threshold)
<1>1. t.threshold = s.threshold
  BY OtherwiseAlike
<1>2. DOMAIN t.regions = DOMAIN s.regions
  BY DEF DiffersInRedacted
<1>3. ASSUME NEW r \in DOMAIN s.regions
      PROVE  FilteredRegion(t.regions[r], TRUE, t.threshold)
               = FilteredRegion(s.regions[r], TRUE, s.threshold)
  <2>1. CASE r \in Redacted(s)
    <3>1. /\ s.regions[r].count < s.threshold /\ t.regions[r].count < t.threshold
          /\ t.regions[r].updated = s.regions[r].updated
      BY <2>1 DEF Redacted, DiffersInRedacted
    <3> DEFINE IsRegion(x) ==
          x = [status |-> x.status, figures |-> x.figures, updated |-> x.updated,
               count |-> x.count]
    <3>0. IsRegion(s.regions[r]) /\ IsRegion(t.regions[r])
      BY <1>2, SnapshotsAssumption
    <3>2. Strip(t.regions[r], PublicBucket) = Strip(s.regions[r], PublicBucket)
      BY <3>0, <3>1, StripForgets
    <3>3. QED
      BY <3>1, <3>2 DEF FilteredRegion
  <2>2. CASE r \notin Redacted(s)
    BY <1>1, <2>2 DEF DiffersInRedacted
  <2>3. QED
    BY <2>1, <2>2
<1>4. QED
  BY <1>2, <1>3 DEF FilteredRegions

LEMMA FilteredAlike ==
    ASSUME NEW s \in Snapshots, NEW t \in Snapshots, DiffersInRedacted(s, t)
    PROVE  Filtered(t, TRUE) = Filtered(s, TRUE)
BY OtherwiseAlike, RegionsAlike DEF Filtered

LEMMA RenderedAlike ==
    \A s, t \in Snapshots : DiffersInRedacted(s, t) =>
      \A view, r, now, o :
        Rendered(view, s, TRUE, r, now, o) = Rendered(view, t, TRUE, r, now, o)
<1> SUFFICES ASSUME NEW s \in Snapshots, NEW t \in Snapshots, DiffersInRedacted(s, t),
                    NEW view, NEW r, NEW now, NEW o
             PROVE  Rendered(view, s, TRUE, r, now, o) = Rendered(view, t, TRUE, r, now, o)
  OBVIOUS
<1>1. Filtered(t, TRUE) = Filtered(s, TRUE) /\ t.generated = s.generated
  BY FilteredAlike, OtherwiseAlike
<1>2. QED
  BY <1>1 DEF Rendered

(* privacy-filter.ts lines 23 to 31 and 42 to 53, with every panel that shows
   its result: in privacy mode the page does not depend on what a region with
   too few samples reports. *)
THEOREM RedactedIsHidden == Spec => []RedactedNeverShown
<1>1. TypeOK => RedactedNeverShown
  <2>1. SUFFICES ASSUME TypeOK, page.snapshot # None, public,
                        NEW t \in Snapshots, DiffersInRedacted(page.snapshot, t),
                        NEW view \in {"global", "releases"}, NEW o \in Options
                 PROVE  Rendered(view, page.snapshot, public, selected,
                                 page.snapshot.generated + 7, o)
                          = Rendered(view, t, public, selected,
                                     page.snapshot.generated + 7, o)
    BY DEF RedactedNeverShown
  <2>2. public = TRUE /\ page.snapshot \in Snapshots
    BY <2>1 DEF TypeOK
  <2>3. Rendered(view, page.snapshot, TRUE, selected, page.snapshot.generated + 7, o)
          = Rendered(view, t, TRUE, selected, page.snapshot.generated + 7, o)
    <3>1. page.snapshot \in Snapshots /\ t \in Snapshots /\ DiffersInRedacted(page.snapshot, t)
      BY <2>1, <2>2
    <3>2. \A v, r, now, p :
             Rendered(v, page.snapshot, TRUE, r, now, p) = Rendered(v, t, TRUE, r, now, p)
      BY <3>1, RenderedAlike, Zenon
    <3>3. QED
      BY <3>2, Zenon
  <2>4. QED
    BY <2>2, <2>3, Zenon
<1>2. QED
  BY PageTyped, <1>1, PTL
=============================================================================
