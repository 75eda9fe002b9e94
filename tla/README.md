# Verification of the ShadowNet agent

TLA+ models of the agent's stateful core, their TLC configurations, and proofs
checked by TLAPS. Paths below are relative to the repository's root (`src/...`
in `PROJECT.json`). `PROJECT.json` lists the runs, the mutants that show each
property can fail, the source lines behind each definition, the hazards and the
theorems.

    tlc -config X.cfg M          checks a run: see the table of runs for X and M
    tlapm MobileBridgeProofs.tla checks the proofs of a module

## 1. Inventory

The agent keeps a set of signed configuration profiles, selects one, renders it
for sing-box, starts sing-box, probes the connection and learns from the result.
It exists twice: as the command line `inside` (Linux), which manages a sing-box
process itself, and as a Go library (`pkg/mobilebridge`) inside an Android
application, where a background loop selects and renders and the Kotlin service
runs sing-box. `outside` produces bundles. An optional orchestrator process
("Pi") decides ambiguous selections. The website (`website/`, Next.js) carries two
dashboards, the download page and the rendered documents of `docs/`.

| Component | State | Operations | Hard behaviour |
|---|---|---|---|
| Mobile bridge `pkg/mobilebridge/bridge.go` | `runtimeState` under one mutex: channels of the session, orchestrator client, status, history | StartAgent, StopAgent, GetStatus, ImportBundle, ResetLearning, background loop | threads that start and stop without a lock (the application's main thread and its monitor coroutine) and one goroutine per session; channels and clients are closed outside the mutex |
| Selection policy `pkg/policy/adaptive.go`, `engine.go` | window of attempt events, cooldowns, selection history, mode | RecordAttempt, RecordSelection, SelectProfile, RankProfiles, Reset | long sequences of attempts, decay over time, filters that exclude everything |
| State files and import `pkg/importctl`, `pkg/profile/*store.go`, `pkg/policy/adaptive_store.go` | `profiles.enc`, `templates.enc`, `adaptive.enc` | ProcessAndStore, Load, Save, Reset | processes and threads without a common lock, writes in place, crashes |
| Inside agent `cmd/inside/main.go`, `pkg/sbctl/controller.go` | attempts of a run, process held, `state.json`, `config.json` | one run: render, validate, start, probe, report, keepalive | eight ways for an attempt to fail, processes that outlive runs, one probe address |
| Orchestrator client `pkg/orchestrator` | request counter, pipes or TCP connection | DecideWithFallback, Decide, Close | late, repeated, wrong or missing answers; a peer that dies |
| Event bus and runtime API `cmd/inside/runtime_api.go` | ring of events, subscribers | publish, subscribe, cancel, stream handler | the agent sends on channels that HTTP handlers close |
| Rotation daemon `cmd/inside/daemon.go`, `pkg/policy/rotation.go` | timer, last rotation | rotate on schedule or on a detector event, reload by SIGHUP | timers against events, a process that has died |
| Bundle verification `pkg/bundle/verify.go` | replay set | verify signature, expiry, canonical form, replay | several trusted signers, replay across a retry |
| Android service `android/.../AgentService.kt` | desired state, monitor thread, back-off | start, stop, monitor, restart | a monitor that restarts what a stop just ended |
| Offline transfer `pkg/outsidectl/chunk.go` | none | split and reassemble | order, duplicates, loss of lines |
| Offline messages `pkg/comms/store.go` | message file | append, prune by count and age | pruning and validation |
| Live dashboard `website/src/components/dashboard/LiveDashboard.tsx`, `lib/dashboard` | filters, snapshot, status, selection; two refs (interval, stream) and an AbortController | open, leave, switch mode or privacy, select, point at a region; effect, tick, answer, stream message, stream error | callbacks and effects that start and stop feeds; redaction spread over a filter and ten panels |
| Runtime dashboard `RuntimeDashboard.tsx`, `app/api/proxy/*` | state, events, error; EventSource | open, leave; first requests, tick, message, reconnection | three sources of the same events, an agent that stops and starts again |
| Download page `DownloadSection.tsx`, `lib/releases/local.ts`, `SiteFooter.tsx` | detected system, role, platform, release | effects, three choices, card clicks | what is offered is derived in four places from one set of files |
| Documents and navigation `lib/docs/*`, `app/docs`, `app/[lang]/*`, `SiteHeader.tsx` | the address, the page shown, the document being rendered | follow a link, redirect, render block by block | languages, redirects, fallbacks and relative links composed |
| Static pages and theme | a class on the root element | | text |
| Detector, advisor, mesh, signal, probe, report, release, installer | little or none | | input and output, stubs, presentation |

How they interact: the bridge's loop and `inside` both load the state files, rank
with the policy engine, consult the orchestrator on an ambiguous ranking, and
write back what was learnt. `inside` publishes each step on the event bus. Import
runs in the application's threads or in a process of its own, beside the loop.
The stores have mutexes, but every user opens a store of its own, so the files
are shared without a lock. The runtime page asks the site's proxy routes, which
pass the agent's state, list and event stream on; the live page asks an operator's
feed directly. Download page and footer read `public/downloads` each for itself,
and the document pages render the files under `docs/`, `updates` and `blog`.

What makes each component correct:

- Bridge: no panic in the application's process and calls that return, whatever
  calls overlap; and where they do not, one loop at a time, no loop that nobody can
  end, no client closed under a request, a bounded number of switches.
- Policy: there is a selection whenever a usable profile exists; failures count,
  recent ones more; a profile that failed is left alone for its cooldown.
- Files: a store that decrypts is consistent; imports lose nothing; a profile never
  precedes its template.
- Inside: no sing-box is left behind by a failure; the outcome of each attempt is
  learnt once; `state.json` tells of the last attempt.
- Orchestrator: it only ever chooses among the candidates it was offered, in answer
  to the current request, and it never blocks.
- Event bus: no send on a closed channel, no gap in a stream but for what was
  dropped as oldest, and no reader can stall the agent.
- Live dashboard: one feed at a time and none after the page; nothing on the page
  depends on a region that is redacted; the feed comes back after a failure.
- Runtime dashboard: a timeline in order and without holes; a status that is not
  left standing when the agent has gone.
- Download page: recommendation, card and footer agree, and the commands shown
  fetch what they open.
- Documents: a link opens the document it names, and every page comes.

## 2. The modules

| Module | Models | How |
|---|---|---|
| `AgentLifecycle` | the bridge's promise to the application's threads | numbered sessions; a loop ends if and only if asked to; a start that overlaps no call finds no loop but lost ones, and a loop is lost only in a crowd of calls |
| `MobileBridge` | `StartAgent`, `StopAgent`, `runLoop`, `runOnce` | one action per critical section of `state.mu`, per channel operation and per stage of a poll. A session's number stands for its channels, its loop and its client; `Nil` is a nil reference. `met` and `origin` are history variables: which kinds of calls overlap a call, and overlapped the StartAgent of a session |
| `MobileBridgeProofs` | | proofs |
| `AdaptivePolicy` | `AdaptiveState`, `Engine.SelectProfile`, the attempts made on a ranking | rankings are operators; equal scores rank in any order because `sort.Slice` is not stable; floating point is scaled to integers |
| `StateFiles` | `ProcessAndStore`, the stores' Load and Save, the poll's use of `adaptive.enc` | a write is a truncation and a write, two steps; a file in between is `Torn`; a store is a set of profiles |
| `StateFilesProofs` | | proofs |
| `InsideSession` | `runWithResolved`, `Controller` | one action per way an attempt can go; processes and the holder of the probe address are external and move on their own |
| `OrchestratorClient` | `Decide`, `DecideWithFallback`, `EnforceSafety`, `Close` | requests and answers are queues; the peer answers once, twice or never |
| `EventFeed` | the bus's promise to the readers of its streams | a queue for each reader; an event reaches all at once, and of a full queue the oldest is lost |
| `RuntimeEvents` | `eventBus`, `sendDropOldest`, the stream handler | one action per select statement of `sendDropOldest` and per critical section |
| `RuntimeEventsProofs` | | proofs |
| `DashboardView` | `privacy-filter.ts` and the panels of the live dashboard | operators: what each panel derives from a snapshot, so that two renderings can be compared |
| `LiveDashboard` | `LiveDashboard.tsx` | the React state and the two refs; one action per effect run, callback and gesture of the reader. What an abort makes fail is part of the action that aborts |
| `LiveDashboardProofs` | | proofs |
| `RuntimeDashboard` | `RuntimeDashboard.tsx` and the proxy routes | the agent, the page's requests, its interval and its EventSource, each answered, refused or broken at any time |
| `Downloads` | `local.ts`, `DownloadSection.tsx`, the footer's release | operators from the files of a build and the reader's choices to recommendation, cards, commands and verification |
| `DocPages` | links, redirects, language prefixes and fallbacks | operators from an address to the page it leads to, from a page to its links |
| `Website` | the reader, the server, `renderMarkdown`, the download page's state | links followed also while a page is on its way; one action per turn of the renderer's loop |
| `AdaptivePolicyProofs`, `InsideSessionProofs`, `OrchestratorClientProofs`, `RuntimeDashboardProofs` | | proofs |
| `MC...` | | the constants of the runs |

Abstractions worth knowing:

- What a poll does inside the bridge is nondeterministic in `MobileBridge` (it
  fails, consults, is rejected, or switches); the ranking is in `AdaptivePolicy`,
  the files in `StateFiles`, the consultation in `OrchestratorClient`. The bridge
  keeps of the history its length, of the status the flag and the last action.
- A history longer than the limits that are tested does not matter, so
  `OrchestratorClient` keeps it up to `SwitchRate`.
- `StateFiles` keeps of a profile its id, endpoint, template and the import that
  brought it, and of `adaptive.enc` only whether it can be read. Profiles are kept
  as a set: their order in the file is not modelled.
- Expiry and signatures of bundles are taken as checked: `Bundles` are those
  that verify.
- `RuntimeDashboard` keeps of the agent's event bus its log: a stream starts with
  the bus's ring and gets each event as it is published. What happens in a channel
  that overflows is in `RuntimeEvents`. Two events of one second that say the same
  are one value, as they are to `mergeEvents`.
- `DashboardView` keeps times in units of ten seconds and a region's protocol mix,
  success and change rate as one value, because the code redacts and shows them
  together. Titles, colours and coordinates of the map are left out.
- `Website` takes a line of a document for what the regular expressions of
  `renderMarkdown` take it for. A quote or bullet with a `|` in it directly after a
  table belongs to two kinds and is not covered. Of a page's own text only the
  links of documents, indexes, header and footer are there.
- `Downloads` keeps of a file name the parts it is put together from, and of a
  version its numbers. Sizes, dates and hashes are left out.
- Definitions called "Faulty variant" are not part of any specification. Each is
  one of the specification's definitions with a plausible mistake, and the
  property it is listed with in `PROJECT.json` fails for it.

## 3. What is checked

| Run (configuration) | Module | Properties | Instance |
|---|---|---|---|
| `bridge_threads` | MCMobileBridge | NoDoubleClose, NoOrphanLoop, SingleLoop, ImplementsLifecycle | a and b start and stop, 3 sessions without orchestrator, limit and history of 1 |
| `bridge_clients` | MCMobileBridge | TypeOK, ClientNotPulled, CallsReturn | a and b start and stop, 2 sessions, the first with an orchestrator, limit and history of 1 |
| `policy` | MCAdaptivePolicy | TypeOK, SelectionNeverCollapses, RecentCountsMore, NoEarlyRetry | 3 profiles, 4 events, clock 0, 90, 180 |
| `files_concurrent` | MCStateFiles | TypeOK, StoreConsistent | 2 importers, 3 bundles, 3 imports, a crash, torn writes |
| `files_single` | MCStateFiles | NothingLost, TemplatesComeFirst | 1 importer, 3 imports, a crash between writes |
| `files_unreadable` | MCStateFiles | UnreadableNotOverwritten (violated) | 1 importer, a torn write |
| `inside` | InsideSession | TypeOK, NoStrayBox, NoAttemptAnswersForAnother | 2 runs, up to 7 attempts, limit 6 |
| `orchestrator` | MCOrchestratorClient | TypeOK, OwnAnswer, NeverBlocks | 3 profiles, 3 consultations, TCP |
| `events` | MCRuntimeEvents | TypeOK, NoSendOnClosed, NothingSkipped, ImplementsFeed, PublishEnds | 2 streams, 4 events, ring and channels of 2 |
| `live` | MCLiveDashboard | TypeOK, OneFeed, RedactedNeverShown, FeedComesBack | 2 regions, thresholds 20 and 50, every configuration of URLs |
| `runtime` | MCRuntimeDashboard | TypeOK, TimelineInOrder, NoHole, StatusShows, NewestShows | 3 events, backlog and list of 2, agent started at most once more |
| `website` | MCWebsite | TypeOK, LinkOpensDoc, StepsSelfContained, OffersAgree, PageAnswered | 7 documents, posts, 5 pairs of build and reader |

What the properties say that the names do not:

- `NoOrphanLoop`, `SingleLoop`, `ClientNotPulled`: any thread may start and stop at any
  moment. The code does not keep every promise when calls overlap, so the properties
  say exactly which overlap can break them, by the history variables: only a
  StartAgent beside another StartAgent makes an orphan, a loop that no call can end;
  a StartAgent beside no other call leaves no loop polling but orphans; a call beside
  no other closes no client in use but an orphan's. An application that calls the
  bridge from one thread, or under a lock, has no overlaps and gets all of it.
- `ImplementsLifecycle`: the same, with what ends a loop and that it ends, as an
  abstract specification in which nothing of the channels is left.
- `ImplementsFeed`: to its readers the bus is an `EventFeed`. The code sends to one
  channel after another, in any order, and up to three steps on each, while handlers
  read, come and go; a reader sees none of that. It is given the ring and then every
  event in order, less the oldest it left unread, whatever the others do.
- `OneFeed`: an interval or a stream, never both, never two, and always the one the
  refs hold, so that `stopAll` ends all there is. The hazard is the stream's error
  callback, which starts a poll by itself beside the effect.
- `RedactedNeverShown`: non-interference of what is rendered from the snapshot. Two
  snapshots that differ only in what
  regions below the threshold report give the same page, in every view, under every
  filter, whatever region is selected. It speaks about the composition of the
  filter with each panel, several of which count or average before they display.
- `FeedComesBack`: a page left open on a mode other than off shows a snapshot again
  and again, through failed requests and broken streams. It asks for the threshold
  of the URL to be the page's own; section 5 says what happens otherwise.
- `TimelineInOrder`, `NoHole`, `NewestShows`: what the page shows is in order
  whichever of its sources was first; no event is missing between two that are
  shown, except what the backlog or the cut of the list loses; and while a stream
  stays open the newest event arrives without a poll. An event the page forgets
  when its first requests fail (section 5) is not asked for by `NewestShows`.
- `StatusShows`: a status that stays comes to be shown, also when the agent started
  after the page; when the agent is gone for good the page stops calling the
  connection secure.
- `LinkOpensDoc`: a link that names a document opens it or its translation, from
  any page and language, through the renderer, `docHref`, redirects and fallbacks.
  `Named` says which document a relative link means, without the renderer's fold.
  It speaks of pages that come: a link that is redirected for ever (docs/index.md:26)
  does not violate it.
- `PageAnswered`: redirects and the rendering of a document end.
- `StepsSelfContained`: when the page says checksum and signature are available,
  the commands of step 1 fetch each file those of steps 2 and 3 open.
- `OffersAgree`: recommendation, platform card and footer name the same artifact and
  release, nothing recommended is also called unsupported, and the page starts with
  a release none is newer than.
- `TypeOK` of `InsideSession` and `OrchestratorClient` also relate variables: a run
  lists and learns each attempt once; a selection is one of its request's candidates.

Why the bounds are enough to be interesting:

- Bridge: the application's threads all start and stop. `AgentService` starts on the
  main thread (AgentService.kt:75) and stops and starts again in a coroutine of its
  monitor (AgentService.kt:292-293); it stops on both (AgentService.kt:50, 68, 86 and
  94). It holds no lock, and cancelling the coroutine does not interrupt a call into
  Go. Two threads collide in every pair of critical sections, and two starting at
  once leave an orphan with two sessions; the third session is one started alone
  beside it. The proofs cover any number of both. The application configures no
  orchestrator, and a session with one multiplies the states, so the three sessions
  of `bridge_threads` have none and `bridge_clients` has two sessions, of which the
  first has a client. A history limit of 1 is reached within a session, as 6 is later.
- Policy: the window of 4 is exceeded, a cooldown of 60 s expires in one step of the
  clock and the decay reaches its floor at 300 s, of which 180 s are covered.
- Files: b1 brings two profiles, b2 claims the endpoint of one of them under
  another id, b3 revokes one and repeats the other, so that conflicts,
  revocations and re-imports occur in every order.
- Inside: the seventh attempt is the one the limit of six rejects; a second run
  meets what the first left.
- Orchestrator: the second consultation meets leftovers of the first. The TCP
  client can lose what is buffered and also keep it, so it has every behaviour of
  the child's pipes on a shared connection; a child that has been killed is the
  `gone` peer.
- Events: more events than the ring and a channel hold, so that every branch of
  `sendDropOldest` is taken, also the one where the handler empties the channel
  in between.
- Live: one region is below both thresholds, below one or above both, depending on
  what it reports, the other above all; two thresholds make the threshold of the
  answer differ from the one asked for before. Modes, URLs present or missing, and
  streams that are absent, good or malformed are all enumerated.
- Runtime: two events share a second and the third says what the first said, which
  is what order and identity in `mergeEvents` depend on; three events exceed backlog
  and list; the agent may be gone, start and stop again.
- Website: the documents have links up, down, to an index, to nothing and to a
  legacy slug, in both languages, and the blocks of the renderer in each order
  that one of its tests looks at. Builds: the one that is shipped; later ones whose
  versions 0.9 and 0.10 compare differently as text; one with a candidate's tag;
  one that cannot be read. Browsers: a phone, a server, a laptop without releases
  for it.

### Fairness

- `MobileBridge`: weak fairness of a call that has begun and of a loop that runs
  (goroutines are scheduled; a poll's disk and network operations have timeouts).
  Strong fairness of a loop's exit: Go's `select` picks at random among ready
  cases, so a loop that comes back to its `select` with the stop channel closed
  takes that branch eventually. No fairness of the application calling anything.
- `RuntimeEvents`: weak fairness of the publisher alone. No handler is assumed ever
  to read.
- `OrchestratorClient`: weak fairness of the timer. The peer owes nothing.
- `LiveDashboard`: weak fairness of the effect and the interval (React and the
  browser run them). Strong fairness of an answer: an operator's feed that is asked
  again and again answers some requests before the next tick aborts them; any number
  may fail. Weak fairness of messages on a stream that stays open.
- `RuntimeDashboard`: weak fairness of the interval, of the handler of messages, of a
  connection attempt being opened or refused, and of each request ending (the proxy
  routes and `fetch` end one way or another). Strong fairness of a successful
  refresh: of an agent that is up some requests succeed.
- `Website`: weak fairness of the server. Nothing is assumed of the reader.
- The other modules have safety properties only.

Deadlock checking is off where a bound ends the behaviour (inside, orchestrator,
events); the others always have a step.

## 4. What is proved

All proofs hold for every value of the constants, given the assumptions named in
the modules (bounds, clock steps and latencies are natural numbers, profiles are
finitely many, the switch limit is within the history, the scores an importer writes and
the span of decay are numbers, the story of events is a sequence, snapshots and regions are records with the fields the code reads).

`MobileBridgeProofs`:

- `TypeCorrect`: TypeOK.
- `ChannelsClosedOnce`: NoDoubleClose, for any threads. The invariant `Handles` says that a session's stop channel is either in
  `runtimeState` or in the hands of one call that is about to close it, and that
  a channel in either place is not closed. It is needed because NoDoubleClose says
  nothing of the channel `runtimeState` holds, which the next call takes.
- `NoLoopIsOrphaned`, `OneLoopAtATime`, `ClientsLeftAlone`: NoOrphanLoop, SingleLoop and
  ClientNotPulled, for any threads. None is inductive: they speak of loops and say
  nothing of the calls that will end them. The invariant `IInv` adds `Handles`;
  `Tracked`, by which the call that closed the channel of a loop waits until the loop
  has gone; `Remembered`, by which a call has met every call under way, and a session
  found in `runtimeState` during a StartAgent was started beside it; and
  `FoundOrphans`, which is SingleLoop said also of later sessions that have ended.
  `AloneAmongOrphans` is the heart: when a call that met no other has waited, all
  loops are orphans. `CallOrphans` says that only a commit makes one, of the session
  it finds, and that orphans stay.
- `LimitHolds`: HistoryWithinLimit, for any threads: while the loop of a session that
  was started alone is the only one, its selections stay within the limit. The
  invariant `Counted` adds that the length its poll has read is still the length. An
  orphan appends to the same history, and would still run.
- `LifecycleImplemented`: the safety part of ImplementsLifecycle: initial states map
  to initial states and each step to a step of AgentLifecycle or a stutter.

`StateFilesProofs`:

- `TypeCorrect`: TypeOK.
- `StoreStaysConsistent`: StoreConsistent, for any importers, bundles, crashes and
  torn writes. The invariant adds the store each import holds in memory, which is
  what it writes; `MergeKeepsConsistent` is the lemma about the conflict check:
  it compares the bundle's profiles with one another and with those kept, and
  those kept were consistent when they were loaded.
- `NothingIsLost`, `TemplatesAreFirst`: NothingLost and TemplatesComeFirst for one
  importer and no torn write (`Alone`, which also says that `Torn` is not the
  content of a store). The invariant `Covered` says that a file is torn only while
  the import writes it, that what the import is about to write covers what was
  promised less what its bundle revokes, and that its templates are among those
  stored, or about to be stored, before it.

`AdaptivePolicyProofs`:

- `TypeCorrect`: TypeOK, with which events and selections stay within their windows.
- `AlwaysASelection`: SelectionNeverCollapses, whatever was learnt. It is a fact about
  the rankings: the lemma `RankingsOf` says which profiles a ranking orders, those
  that are awake or, in their absence or with learning off, all usable ones, and a
  ranking of a set that is finite is empty only when the set is.
- `FailedAreLeftAlone`: NoEarlyRetry. The invariant `Cooled` says that an event is no
  later than the clock and that a failure still in the window has its cooldown
  recorded. It is needed because the ranking looks at the cooldowns while the
  property speaks of the failures.
- `RecentFailuresCount`: RecentCountsMore, for any span of decay. The invariant
  `InOrder` says that events are kept in the order of the clock, also after the
  oldest were cut; it is needed because the property orders the events by their
  places while their weights go by their times. `WeightsGrow` says that
  `decayWeight` never falls for a later event, floor included, and `SharesGrow`
  that neither does a share of it, rounded down. A sum over a set is
  a CHOOSE of the solution of an equation, so it says nothing until a solution is
  shown: `WeightOfTwo` writes it down for the subsets of two events, which is all
  the property needs, where more of them would take an induction.

`InsideSessionProofs`:

- `TypeCorrect`: TypeOK, with which every attempt is listed and learnt once. The
  invariant `Counted` ties the lists to the stage the attempt is at.
- `NothingLeftBehind`: NoStrayBox. The invariant `Held` says that from its start to
  the end of its attempt a process is the one the controller holds, and that no
  process belongs to a run that is yet to come; it is needed because `Stop`
  ends the process that is held, whichever is alive.
- `OwnBoxAnswers`: NoAttemptAnswersForAnother, from the same invariant.

`OrchestratorClientProofs`:

- `TypeCorrect`: TypeOK, with which a selection is one of its request's candidates.
  The invariant `Typed` adds the types of queued answers, and that the policy's own
  selection, which a failed consultation falls back on, was among them.
- `AnswersAreOwn`: OwnAnswer, however late, repeated or left over answers are.

`RuntimeEventsProofs`:

- `TypeCorrect`: TypeOK.
- `NeverSendsOnClosed`: NoSendOnClosed, for any streams. The invariant
  `Subscribed` says that the channels a publish still has to send to are subscribed,
  that no subscribed channel is closed, and that a handler about to close its
  channel has taken it out.
- `OnlyOldestDropped`: OldestDropped, for any sizes. The invariant `Ordered` says
  that a channel buffers events in increasing order, older than the one it still
  waits for, that what it lost is older, and that there is room after a drop, so
  that the last branch of `sendDropOldest` never drops the new event.
- `NoneSkipped`: NothingSkipped, for any streams and sizes. The invariant `Unbroken`
  says that the ring holds the last events without a gap, that a stream in
  progress is subscribed, and that what it was sent, buffers and lost are all
  events since the first it was sent, but for one that is being published to it.
- `BacklogEndsOnce`: what a stream sends goes back in the order of publication at most
  once, where its backlog ends. The code does repeat events there (section 5); this
  says it does so nowhere else. The invariant `AfterBacklog` adds that what was sent
  since the backlog is older than what the channel buffers and waits for, which is
  what the handler sends next.
- `BusImplementsFeed`: ImplementsFeed. In the mapping the event being published is in
  the queue of every channel it was not sent to yet, so that `Publish` is the one step in
  which all readers get it, and sending to a channel is a stutter. A queue is
  `late` when its channel is full and the publisher has not come to it, or found it
  full; a handler that reads first saves the oldest event, or comes too late
  between the first and second select. The invariant `Attached` says that a
  handler that has not begun has an empty channel nobody sends to, that one that
  reads is subscribed, and that the ring is as full as it can be. It is needed because
  EventFeed gives every reader each event and a full backlog, while the code
  looks at `subs` and `ring`. `OldestDropped` is proved, not run: the run
  checks ImplementsFeed, which has the same hazard and says more.

`LiveDashboardProofs`:

- `PageTyped`: TypeOK, for any snapshots, thresholds and regions.
- `FeedIsOne`: OneFeed. It is inductive with the types: every way to start a feed
  goes through `stopAll` or through a callback of the one stream there is.
- `RedactedIsHidden`: RedactedNeverShown, for any snapshots with any number of regions.
  It is not about steps: the proof goes panel by panel and shows that each derives
  the same from two snapshots that differ in redacted regions only, then that the
  page is put together from those panels.

`RuntimeDashboardProofs`:

- `TypeCorrect`: TypeOK.
- `TimelineOrdered`: TimelineInOrder, for any events and sizes. The lemma
  `MergedIsSorted` is about `mergeEvents`: a place of the merged list is found by
  counting what comes before, so two places hold different events in the order of
  their seconds, whatever the two lists were. The invariant adds that only an open
  page has requests under way.
- `NoneIsMissing`: NoHole, for any events and sizes, although list, backlog and stream
  arrive in any order and a wiped page begins again. `MergedKeeps` says that an
  event of either list is in the merged one unless it is full and ends with one
  no older; `MergedFills`, by counting, that a full list stays full and
  that its end never gets older, so what was cut stays cut. The invariant
  `Gapless` says what is on the wire of an open stream is the end of the log, that
  every event is covered (shown, on the wire, gone from the backlog, or cut) while
  the first requests are under way, and later every one that follows an event
  that was seen. NoHole is not inductive: it speaks of events between two that
  were seen, and the next one seen may be newer than both.

Only model-checked: liveness and the fairness part of ImplementsLifecycle (liveness
and ENABLED are out of the prover's reach), and the properties of Website.
TypeOK, LinkOpensDoc and OffersAgree of Website rest on what folds over paths, a sort
of the releases and the search for the end of a block compute, which takes an
induction over data that the provers cannot make.

## 5. Where the code and its documents disagree

With a run that shows it:

- `files_unreadable`: an import that cannot decrypt the profile store treats it
  as empty and overwrites it (`import.go:118-120`; docs/security/checklist.md:21).

Found while modelling, without a run of its own.

Agent:

- Two StartAgent at once leave a loop that nothing ends: the later commit overwrites
  the channels of the earlier session (`bridge.go:102-106`), every later StopAgent
  finds only the later session's, and the earlier loop polls and rewrites the
  configuration until the process ends. docs/deployment/real-world-model.md:98 promises
  "immediate VPN and agent stop". A StopAgent beside a StartAgent can be the only one
  that waits for the old loop, so that for a while two loops poll (`bridge.go:90-107`,
  `bridge.go:109-127`); and loops that poll together share one history, whose limit
  each then tests against a length the other has passed. A StopAgent beside a StartAgent
  can also close the client of a session in the middle of a request, while the other
  call still waits for its loop: TLC finds it when `ClientNotPulled` is stated without
  its excuse, where the session has an orchestrator. `AgentService` can reach the rest
  of it, for it configures none: its main thread and its monitor call without a lock
  (AgentService.kt:75, AgentService.kt:292-293). The excuses in `NoOrphanLoop`, `SingleLoop`,
  `ClientNotPulled` and `HistoryWithinLimit` are these cases and no others.
- The diversity guard changes `Decision.Selected`, while the engine returns the
  first of the ranking; nobody selects by the decision (`engine.go:136`,
  `adaptive.go:369`; docs/intelligence/adaptive-system.md:78).
- `adaptive.enc` is written in place, and one that was torn makes every later poll
  fail before it selects (`bridge.go:279-282`; docs/intelligence/adaptive-system.md:9).
- A rendering error of a fallback profile, or the rate limit at the seventh attempt,
  ends the run without writing `state.json` (`main.go:611`, `main.go:631`;
  docs/testing/e2e-validation.md:17). When `state.json` itself cannot be written the
  run fails with its sing-box running (`main.go:861`).
- A poll in flight sets `Running` after StopAgent has reset it, and nothing resets
  it again (`bridge.go:374`, `bridge.go:488`). A loop can also store its client in
  `runtimeState` after its session has ended (`bridge.go:215`).
- The history the switch limit counts never ages within a session: after six
  selections every further poll is rejected, while the parameter is called
  `maxPerMinute` (`bridge.go:334`, `bridge.go:384`).
- One error of a consultation, a timeout included, closes the client, which the
  caller keeps: the session goes on without its orchestrator (`fallback.go:45`,
  `client.go:142`).
- Importing a bundle again stores each of its profiles a second time
  (`import.go:136`, `import.go:192`; docs/security/checklist.md:6). Of two imports at
  once the later save drops what the other brought (`store.go:138`).
- A poll that loaded before ResetLearning can write back what was to be forgotten
  (`bridge.go:189`, `bridge.go:367`).
- A run without keepalive leaves its sing-box on the probe address, where it
  answers the probe of a later run whose own process could not bind
  (`main.go:781`, `main.go:864`). NoAttemptAnswersForAnother holds within a run.
- `ApplyAndReload` with a process in hand only sends SIGHUP, also when that process
  has died (`controller.go:140`).
- An event published between a stream's subscription and its backlog is written
  twice (`runtime_api.go:301-304`).
- `--validate-only` reports "validated" when there is no sing-box binary
  (`main.go:675-678`).

Dashboards:

- The effect of the live page depends on the threshold of the snapshot it fetches.
  A feed with a threshold other than 20 makes it clear the page and fetch again, and
  when the answer is cleared with it, without end (`LiveDashboard.tsx:184`).
- Each tick aborts the request before it, and the abort is shown as an error: a feed
  slower than the interval never shows (`LiveDashboard.tsx:94-116`).
- The map's tooltip keeps what it was given: switching privacy on by keyboard while
  the pointer rests on a region leaves its figures shown. RedactedNeverShown is about
  what is rendered from the snapshot, not about that copy.
- A region name in a helper's label is not redacted in privacy mode; helpers are
  taken as public.
- A snapshot that passes the shallow validation but lacks a nested field ends the
  page in an exception.
- A runtime page opened while there is no agent gets a 503 for its stream, and an
  EventSource does not try again after that: events then arrive only with a reload,
  though the state recovers by polling (docs/observability/events.md promises events
  without polling lag).
- When the first requests fail after the stream has delivered, the page forgets what
  was delivered (`RuntimeDashboard.tsx:77`).
- docs/dashboard/runtime-integration.md:9 says the page polls every 3 s; it does
  every 15 s.

Website:

- `legacyRedirects` sends `signal` to itself; docs/index.md:26 links to it.
- A line of `# ` and nothing but blanks is no heading and ends every paragraph:
  `renderMarkdown` does not end on it (`markdown.tsx:283-296`). No document has one.
- The header's dashboard link, and the language switch on the dashboard, lead to
  pages under `/en` and `/fa` that do not exist; on `/fa/docs/fa/...` the switch
  does not find the English page; breadcrumbs name directories without an index.
- Where a release has no APK, the Android recommendation falls back on a binary of
  the command line, which step 1 stores as `app-release.apk`, so that
  `sha256sum -c` does not find it.
- v0.1.0 ships no `checksums.*`, which the cosign command of the page opens.
- The comparison of releases falls back on text for tags that are not plain versions,
  and is then not transitive; an unreadable directory hides all releases.
- A table directly after a paragraph is rendered as text.
- The card of the Raspberry Pi offers "inside" whatever role is chosen, and no
  browser is ever detected as one.

## 6. What is not modelled

Cryptography, encodings, rendering for sing-box and probing are functions of libraries
or text. Engine.Evaluate and the language model advisor, the installer, release and
report tools, the Android user interface and the mesh and signal stubs keep no state
that a step of another component depends on. Of the website, pages of plain text,
the theme, the debug panel, `lib/dashboard/demo.ts` (which nothing calls), titles,
tables of contents, copying to the clipboard and layout are left out. Rotation, bundle
verification, the Android service, offline transfer and offline messages do keep
state, and are in the plan.

## 7. Plan

Done: `MobileBridge` with `AgentLifecycle`, then `AdaptivePolicy`, `StateFiles`,
`InsideSession`, `OrchestratorClient`, `RuntimeEvents` with `EventFeed`, `LiveDashboard` with
`DashboardView`, `RuntimeDashboard`, `Website` with `Downloads` and `DocPages`; the
proofs of section 4.

To be modelled, in this order:

1. `RotationDaemon`: `cmd/inside/daemon.go`, `rotation.go` and the reload path of
   the controller, composed with the process of `InsideSession`. Properties: the
   process that runs has the configuration last rendered; a rotation is followed
   by another; a dead process is started again or reported.
2. `BundleTrust`: verification with several signers, the replay set across the
   retry of `ParseBytes`, expiry. Properties: a bundle of any trusted signer is
   accepted once and only once; a refused one leaves no trace. Refines
   an abstract `AcceptOnce`.
3. `AndroidSupervisor`: the monitor, restarts with back-off, stop, boot. Properties:
   after a stop nothing restarts the tunnel; a crash is followed by a restart.
4. `Chunking`: split and reassembly as operators, checked against the identity over
   bounded inputs with lines lost, repeated and reordered.
5. `CommsStore`: append and prune by count and age.
6. `BridgeOrchestrator`: `MobileBridge` composed with `OrchestratorClient`, for the
   client of a session that runtimeState still holds after its end.

To be proved: `StepsSelfContained` of `Website`, which needs neither folds nor sorts;
that the stream `RuntimeDashboard` reads is one an `EventFeed` gives, which would join
the two by the abstract specification.
Runs of new modules replace runs whose question a theorem answers.
