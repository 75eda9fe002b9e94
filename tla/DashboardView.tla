---------------------------- MODULE DashboardView ----------------------------
(***************************************************************************)
(* What the aggregate dashboards render of a snapshot: the privacy filter  *)
(* of lib/dashboard/privacy-filter.ts and the panels of                    *)
(* components/dashboard that show what it leaves.  All operators, no state.*)
(*                                                                         *)
(* Times are in units of ten seconds, rates in percent, coordinates in     *)
(* tenths of a degree.  A region's protocol mix, success and change rate   *)
(* go through the code together and are one value, its figures.            *)
(***************************************************************************)
EXTENDS Integers, Sequences, FiniteSets

CONSTANT None     \* a value that is absent

NoFigures == "suppressed"

-----------------------------------------------------------------------------
(* The privacy filter *)

PublicBucket == 30     \* 300 s
TrustedBucket == 6     \* 60 s

Bucket(t, size) == (t \div size) * size

(* Math.round: halves go up. *)
Rounded(n, step) == ((2 * n + step) \div (2 * step)) * step

AtLeast(a, b) == IF a >= b THEN a ELSE b
AtMost(a, b) == IF a <= b THEN a ELSE b

(* Faulty variant: the status is kept for the map, as the figures are gone. *)
StripLeavingStatus(r, size) ==
    [r EXCEPT !.figures = NoFigures, !.updated = Bucket(@, size), !.count = 0]

Strip(r, size) ==
    [r EXCEPT !.status = "unknown", !.figures = NoFigures,
              !.updated = Bucket(@, size), !.count = 0]

FilteredRegion(r, public, threshold) ==
    IF ~public THEN [r EXCEPT !.updated = Bucket(@, TrustedBucket)]
    ELSE IF r.count < threshold THEN Strip(r, PublicBucket)
    ELSE [r EXCEPT !.updated = Bucket(@, PublicBucket),
                   !.count = AtLeast(threshold, Rounded(@, 25))]

FilteredHelper(h, i, public) ==
    IF ~public THEN [h EXCEPT !.updated = Bucket(@, TrustedBucket)]
    ELSE [h EXCEPT !.id = i, !.label = "zone", !.coords = Rounded(@, 5),
                   !.updated = Bucket(@, PublicBucket)]

FilteredFlow(f, public) ==
    IF ~public THEN [f EXCEPT !.ts = Bucket(@, TrustedBucket)]
    ELSE [f EXCEPT !.from = Rounded(@, 5), !.to = Rounded(@, 5),
                   !.ts = Bucket(@, PublicBucket),
                   !.intensity = AtMost(100, AtLeast(0, @))]

FilteredRegions(regions, public, threshold) ==
    [r \in DOMAIN regions |-> FilteredRegion(regions[r], public, threshold)]

(* Each part with its times in the view's buckets and, for everybody, with
   its numbers rounded. *)
BucketOf(public) == IF public THEN PublicBucket ELSE TrustedBucket
Coarse(n, step, public) == IF public THEN Rounded(n, step) ELSE n
Stamped(part, public) == [part EXCEPT !.updated = Bucket(@, BucketOf(public))]

FilteredInside(i, public) == [Stamped(i, public) EXCEPT !.active = Coarse(@, 50, public)]

FilteredOutside(o, public) ==
    [Stamped(o, public) EXCEPT !.bundles = Coarse(@, 5, public),
                               !.distributed = Coarse(@, 5, public)]

FilteredProtocols(ps, public) == [i \in DOMAIN ps |-> Stamped(ps[i], public)]

FilteredActivity(as, public) ==
    [i \in 1 .. AtMost(50, Len(as)) |-> [as[i] EXCEPT !.ts = Bucket(@, BucketOf(public))]]

FilteredFlows(fs, public) == [i \in DOMAIN fs |-> FilteredFlow(fs[i], public)]
FilteredHelpers(hs, public) == [i \in DOMAIN hs |-> FilteredHelper(hs[i], i, public)]

(* applyPrivacyFilter as LiveDashboard calls it: the threshold is the
   snapshot's own. *)
Filtered(s, public) ==
    [threshold |-> s.threshold,
     generated |-> Bucket(s.generated, BucketOf(public)),
     regions   |-> FilteredRegions(s.regions, public, s.threshold),
     inside    |-> FilteredInside(s.inside, public),
     outside   |-> FilteredOutside(s.outside, public),
     protocols |-> FilteredProtocols(s.protocols, public),
     release   |-> Stamped(s.release, public),
     activity  |-> FilteredActivity(s.activity, public),
     flows     |-> FilteredFlows(s.flows, public),
     helpers   |-> FilteredHelpers(s.helpers, public)]

-----------------------------------------------------------------------------
(* The panels.  s is what Filtered returned. *)

Freshness(age) ==
    CASE age < 2 -> "live"
      [] age >= 2 /\ age < 9 -> "delayed"
      [] age >= 9 /\ age < 60 -> "stale"
      [] OTHER -> "offline"

CountByStatus(s, status) ==
    Cardinality({r \in DOMAIN s.regions : s.regions[r].status = status})

(* The first protocol of the highest success rate: the sort is stable. *)
Leader(s) ==
    LET best == {i \in DOMAIN s.protocols : \A j \in DOMAIN s.protocols :
                   \/ s.protocols[j].success < s.protocols[i].success
                   \/ s.protocols[j].success = s.protocols[i].success /\ i <= j}
    IN  IF best = {} THEN "reality" ELSE s.protocols[CHOOSE i \in best : TRUE].protocol

Summary(s, now) ==
    [freshness |-> Freshness(AtLeast(0, now - s.generated)),
     survival  |-> s.inside.survival,
     blocked   |-> CountByStatus(s, "blocked") + CountByStatus(s, "unstable"),
     helpersUp |-> Cardinality({i \in DOMAIN s.helpers : s.helpers[i].availability = "up"}),
     leader    |-> Leader(s)]

(* NetworkMap's getRegion. *)
MapRegion(s, r, public) ==
    IF public /\ s.regions[r].count < s.threshold
    THEN [s.regions[r] EXCEPT !.status = "unknown"]
    ELSE s.regions[r]

(* What the tooltip prints of the region it holds. *)
Tooltip(region) ==
    [status |-> region.status, figures |-> region.figures, updated |-> region.updated]

NetworkMap(s, public, showHelpers, showFlows) ==
    [colors  |-> [r \in DOMAIN s.regions |-> MapRegion(s, r, public).status],
     hover   |-> [r \in DOMAIN s.regions |-> Tooltip(MapRegion(s, r, public))],
     helpers |-> IF showHelpers
                 THEN [i \in DOMAIN s.helpers |->
                        [at |-> s.helpers[i].coords, color |-> s.helpers[i].availability]]
                 ELSE <<>>,
     flows   |-> IF showFlows
                 THEN [i \in DOMAIN s.flows |->
                        [from |-> s.flows[i].from, to |-> s.flows[i].to,
                         width |-> 1 + Rounded(2 * s.flows[i].intensity, 100) \div 100]]
                 ELSE <<>>]

(* The card does not show the sample count. *)
RegionDetail(s, selected) ==
    IF selected \notin DOMAIN s.regions THEN None
    ELSE [status  |-> s.regions[selected].status,
          figures |-> s.regions[selected].figures,
          updated |-> s.regions[selected].updated]

HelperPanel(s) ==
    [updated |-> s.outside.updated,
     zones   |-> [i \in DOMAIN s.helpers |->
                   [label |-> s.helpers[i].label, color |-> s.helpers[i].availability,
                    updated |-> s.helpers[i].updated]]]

(* The ten newest of the window, of equals the one that was first. *)
ActivityFeed(s, severity, window, now) ==
    LET hits == {i \in DOMAIN s.activity :
                   /\ s.activity[i].ts >= now - window
                   /\ severity \in {"all", s.activity[i].severity}}
        Before(i) == {j \in hits : \/ s.activity[j].ts > s.activity[i].ts
                                   \/ s.activity[j].ts = s.activity[i].ts /\ j < i}
    IN  {s.activity[i] : i \in {j \in hits : Cardinality(Before(j)) < 10}}

ProtocolPanel(s, protocol) ==
    {s.protocols[i] : i \in {j \in DOMAIN s.protocols :
                               protocol \in {"all", s.protocols[j].protocol}}}

ReleaseCard(s) ==
    LET r == s.release
    IN  [latest    |-> r.latest,
         signature |-> r.signature,
         minutes   |-> Rounded(r.age, 6) \div 6,
         downloads |-> IF r.downloads = None THEN "n/a" ELSE r.downloads,
         artifacts |-> [a \in DOMAIN r.artifacts |->
                         IF r.artifacts[a] THEN "ok" ELSE "missing"],
         updated   |-> r.updated]

(* Installations as a number, the signals in percent; seed adoption also as
   the width of a bar. *)
MeshCard(s) ==
    LET i == s.inside
    IN  [active |-> i.active, blackout |-> i.blackout, survival |-> i.survival,
         mesh |-> i.mesh, seeds |-> i.seeds, bar |-> i.seeds, updated |-> i.updated]

(* The page of one view: what follows from the snapshot, the filters of the
   reader and the time it is rendered at. *)
Rendered(view, snapshot, public, selected, now, o) ==
    LET s == Filtered(snapshot, public)
    IN  [updated |-> snapshot.generated,
         summary |-> Summary(s, now),
         detail  |-> RegionDetail(s, selected),
         zones   |-> HelperPanel(s),
         main    |-> IF view \in {"protocols", "releases"}
                     THEN [health |-> ProtocolPanel(s, o.protocol), release |-> ReleaseCard(s)]
                     ELSE [map |-> NetworkMap(s, public, o.helpers, o.flows)],
         inside  |-> MeshCard(s),
         feed    |-> ActivityFeed(s, o.severity, o.window, now)]
=============================================================================
