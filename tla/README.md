# Chicha Isotope Map: models, checks and proofs

This directory holds TLA+ models of the server in this repository
(`chicha-isotope-map.go` and `pkg/`) and of the page of the map that it serves
(`public_html/map.html`) with the bridge to its vector base map
(`public_html/leaflet-maplibre-gl.js`), TLC configurations that check them on
small instances, and theorems that TLAPS proves for every instance. Paths are relative to `src/`;
a bare line number means `chicha-isotope-map.go`.

    tlc -config PipelineCalls.cfg MCSerializedPipeline.tla    # one run
    tlapm SerializedPipelineProofs.tla                        # one proof

`PROJECT.json` lists the components, the runs, for every modelled definition the
lines it stands for, for every property a small change of the code that would
break it (written out in the modules as a *faulty variant*), the hazards the
properties are aimed at, the disagreements between code and comments that the
runs exhibit, and the theorems.

## 1. The system and its parts

One Go process serves a map of radiation measurements. Goroutines own state and
exchange messages over channels; mutexes are avoided throughout. The shared
state is the database, one of SQLite (the default), Chai, DuckDB, PostgreSQL
(pgx) or ClickHouse. The first three are *single-writer*: all access goes
through one worker.

| Component | State | Operations | Talks to |
|---|---|---|---|
| Serialized pipeline `pkg/database/database.go` | five lanes (buffered channels), a turn, a worker, a result channel per job | `enqueue`, `getNextJob`, `withSerializedConnectionFor` | every user of a single-writer database |
| DuckDB maintenance `pkg/database/database.go`, 3309-3337 | a queue of 4, a worker, a result channel per job | `enqueue`, `startDuckDBMaintenance`, `queueDuckDBMaintenanceAfterImport` | archive imports; runs as an archive job of the pipeline |
| Desktop bootstrap import 690-770, 5790-5868 | a token in a channel of one, a status channel of 128, a table of statuses | click handler, importer goroutine, status tracker | archive import |
| Archive import 2985-3460 | the position in a .tgz, a channel of bytes and one of entries, the last log line | `processTrackExportArchiveReader`, `logArchiveImportProgress` | track storage, DuckDB maintenance |
| Track storage 3851-4049, `InsertMarkersBulk`, `DetectExistingTrackID`, `EnsureTrackPresence` | `markers` (raw points and an aggregate per zoom level and map cell), the registry `tracks` | probe, register, insert chunk by chunk | all importers, the rebuild |
| Zoom rebuild 1861-1953 | a row of `maintenance_state`, the track under work | list, read, delete, insert, record | track storage |
| Marker streams 7250-7710, `pkg/database/stream.go`, `StreamMarkersByZoomBoundsSpeedOrderedByTrackDate` | per request: a query, a summarizer, an aggregator, a handler and the channels between them; the pool of connections | `streamMarkersHandler`, `streamPlaybackHandler` | browsers, the pipeline |
| Track speeds 1657-1835 | the points in memory | `calculateSpeedForMarkers` | track storage |
| AtomFast and Safecast loaders 4150-4920 | `import_history`, page, counters, a worker | first load, refresh, import of one track | track storage, the providers |
| Realtime poller and promotion `pkg/safecast-realtime`, `PromoteStaleRealtime` | `realtime_measurements`, `markers` | poll, insert, promote silent devices | upstream feed, the pipeline |
| JSON archive generator `pkg/jsonarchive` | the archive and its temporary files, current result, timer, builder | `Fetch`, build, replace | `/api/json/*.tgz` |
| Rate limiter `pkg/api/ratelimiter.go` | per address: downloads in progress, completion stamps | `Acquire`, `Release` | every API handler |
| Track registry `pkg/database/tracks.go`, `pkg/api/handlers.go` 499-1203, `pkg/jsonarchive/generator.go` 388-459 | the registry `tracks`, a row of `maintenance_state` | `backfillTracksTable`, listings of all tracks and of a year, tracks by ID and by number, pages of an archive | imports, the API, the archive |
| Response cache `pkg/api/cache.go` | entries with a deadline | `GetWithTTL` | overview, lists, tracks |
| Track info cache `pkg/api/trackinfo_cache.go` | a snapshot, a refresh goroutine, a timer | `Get`, `Close` | `latestTrackInfo` |
| Short links `pkg/database/shortlinks.go` | `short_links` (unique code, unique target) | preview, persist, resolve | `/api/shorten`, `/s/` |
| Visitor analytics `pkg/analytics`, `pkg/database/analytics.go` | cookies, fingerprint cache, visitor counter, message queue, two tables | `ensureSession`, `RecordEvent`, the goroutine `run` | middleware around all pages |
| Loader of the map's markers `public_html/map.html` 6300-6560, 11100-11700 | load token, streams, render queue, covered bounds, the stored date range and its slider, a debounce timer | `updateMapMarkers`, callbacks of `startMarkerLayerStream`, `drainRenderQueue` | `/stream_markers`, the playback |
| Playback `public_html/map.html` 9050-9900 | `trackPlaybackActive`, `playbackState`, a loop per run, a restart timer | `togglePlayback`, `stopPlayback`, `playTracksSequentially` | `/stream_playback`, the same markers |
| Vector base map `public_html/leaflet-maplibre-gl.js`, `public_html/map.html` 7133-7281, 12733-12753 | renderer, theme, style; per layer: camera, offset, container, transform, a throttle, frames under way | handlers of Leaflet's `move`, `zoom`, `zoomanim`, `zoomstart`, `zoomend`, `resize`, `setBaseLayer`, `setTheme` | Leaflet, MapLibre |

Not modelled, with the reason for each, are listed at the end of section 7.

### What is hard about it

* **Interleaving of statements.** No operation that spans several statements
  takes a lock: the storage of a track, the commit of a short link, the
  promotion of a device and the rebuild are all interleaved with each other.
* **Callers that leave.** HTTP contexts end while a job is queued, running, or
  already answered; deadlines race with late answers everywhere.
* **Work that waits for its reader.** A playback runs inside the only worker of
  the database, holds one or two of its connections, and hands over a marker
  only when the browser takes it.
* **Channels at their limit.** A full lane makes its caller spin, a full
  message queue drops the message, a full status channel drops the news, a
  full build-request channel drops the signal; each has a different
  consequence.
* **One goroutine, many duties.** The dispatcher of the limiter waits for a
  worker that sits out a cooldown; the cache's owner runs the loader; the track
  info loop attends to one caller; the analytics goroutine writes to the
  database. Whoever forgets to answer one message stops everybody.
* **Failure in the middle.** Outside PostgreSQL an import commits chunk by
  chunk; a crash comes between any two statements; the archive is replaced by
  rename, or by remove and rename.
* **Paging a list that moves.** The provider publishes while the loader pages.
* **One thread, many callbacks.** The page of the map has streams of a load that
  was superseded, a timer that the next move replaces, loops that sleep through
  the end of their playback, and an offline cache that answers after an error.
* **Two maps in step.** The camera of the vector map follows the Leaflet map by
  events, through a throttle and frames, while animations and gestures overlap
  and the renderer may be exchanged under them. The page as it is never gets
  there (section 6): it shows tiles, because its probe for MapLibre looks for a
  function that the bundled MapLibre 5 lacks. This part is what becomes true of
  the page with a MapLibre that has it.
* **Numbers that move.** A track's number is its place in the registry. It is
  computed by other statements than the page it stands on, while imports add
  tracks before it and the backfill fills the registry.

### What makes each part correct

* Pipeline: one function at a time, each at most once; nobody is told a verdict
  that was not given; every queued call is answered; no lane starves.
* Maintenance: each request is answered, and a queued pass runs.
* Bootstrap import: at rest the page does not claim an import runs; the slot is
  returned however the import ends.
* Archive import: it ends, and its last line tells the true number of entries.
* Storage: what is reported stored is stored, and shown at each zoom with its
  local peaks; a repeated upload is recognised; no marker is unlisted.
* Streams: a stream that is told to be complete is; streams do not block each
  other; channels outlive those who send into them.
* Rebuild: "done" means that peaks are shown; a broken-off rebuild can start
  again from intact sources.
* Loaders: `import_history` tells the truth, nothing is imported twice, new
  tracks get in.
* Promotion: no reading vanishes on its way from the live table to the tracks.
* Archive generator: a caller told "ready" finds the archive; it is renewed.
* Limiter: never more than the burst in a cooldown; everybody is let through.
* Caches: bounded staleness, bounded load, no loss of what could be served.
* Short links: a code leads to one URL and a URL has one code.
* Visitors: a session has one number wherever it is known; pages never hang.
* Map page: a settled map shows what the user looks at, and it settles.
* Base map: there is one, and at rest it shows exactly the view.
* Track registry: what its backfill records is true; numbers follow the order of
  tracks and lead back to them; an archive misses nobody.

## 2. The modules

Core modules carry the source's names. An action is a handler or the code
between two points where another goroutine can intervene; its guard is the
code's condition and its effect everything the code changes before the next such
point.

| Module | What it models | Abstraction |
|---|---|---|
| `SerializedPipeline` | lanes, sweep of non-blocking probes, blocking select, context check, execution, both ways a caller returns | a call's identity is used again, so load never ends; `overtaken` is a history counter |
| `SerialExecutor` | what a caller of the pipeline may rely on | the abstract specification the pipeline refines |
| `DuckDBMaintenance` | queue, worker, the 30 second deadline, `defer cancel()` | a pass is one step that takes its time |
| `ArchiveProgress` | the loop over entries and its logging goroutine | a byte count is news nobody needs; only the end of the channel matters |
| `ImportSlot` | token, handler, importer, status tracker | statuses are `running`, `done`, `error` |
| `DesktopImports` | the three composed: click, archive, maintenance | the end of an import follows from its reading |
| `TrackImport` | imports side by side into one table, crash and failure between statements | a point is its identity and its rank by dose rate; a cell map per zoom |
| `ZoomRebuild` | the rebuild beside them, over several starts of the process | extends `TrackImport` |
| `TrackSpeeds` | the in-place algorithm | whole distances on a line |
| `ImportLoader` | either loader, by the constant `Provider` | the list is `published, ..., 1`; delays are steps |
| `MarkerStreams` | requests for the map, a track, devices and a playback, from the query to the client | a marker is its number by date; the pipeline is reduced to its worker, as `SerialExecutor` allows; an action is a guard with a name and the values it gives, so that `CanGoOn` can say whether any is possible |
| `TrackCatalogue` | the backfill with its recorded state, imports, a reader that lists or archives page by page or looks up one track | a track is its place in the order of IDs; readers change nothing, so one stands for all |
| `MarkerPaths` | the rebuild on one site, uploads on another, the speeds, the streams, the promotion, the catalogue | see below |
| `RealtimeHistory` | poll, insert, two overlapping promotions | a reading is its number within its device |
| `ArchiveGenerator` | coordinator, builder, callers, directory | age is one bit: due or not |
| `BackgroundJobs` | the archive, both loaders, the limiter | see below |
| `RateLimiter` | dispatcher, per-address workers, watchers, callers | ages instead of clocks, capped at the cooldown |
| `ResponseCache` | owner goroutine, callers, a clock | data is the time at which it was read |
| `TrackInfoCache` | loop, refresh with two queries, timer, uploads in between | identifiers are integers |
| `ShortLinks` | preview and commit of several users | codes and URLs are values |
| `VisitorSessions` | middleware, goroutine, cache, queue, tables | the fingerprint is a function of the browser |
| `SiteServices` | the response cache, the track numbers, the links, the visitors | see below |
| `ViewportLoader` | moves, filters, loads with their streams and frames, and what a load does as it settles: covered bounds, the slider of the dates shown or hidden, a stored range dropped, a playback stopped by that | the map is a line of cells, a layer has one marker per cell and zoom unless the cell is bare; of a date range, which cells it hides and which span it exactly; live sensors and the thinning of markers are left out |
| `MapPlayback` | the playback on top of it; extends `ViewportLoader` | a step is a task with the promise callbacks it makes runnable; a track is its number of points; of the ways to stop, the play button, a change of place, zoom, filter or range, and the end |
| `VectorLayer` | the handlers of the bridge as functions of a layer and the view; the tasks of the page as actions, each firing the events in the order of `public_html/leaflet.js` | a camera is a center and a zoom; an offset and a size are members of small sets; the canvas is scaled or not |
| `BaseMapLayer` | its owner: probe, styles, fallback, themes, change of the base, a map of MapLibre that cannot be made; extends `VectorLayer` | a style is loading, changing, loaded or none; "stuck" is the end of a page whose new layer has no map |
| `MapPage` | the page: `MapPlayback` and `BaseMapLayer` | see below |

`MC...` modules give values to constants that a `.cfg` cannot write down.

Smaller things that the models leave out of the code they stand for:

* `TrackImport`: the key of a row is its place, date, dose and track; the source
  compares count rate and speed as well (`pkg/database/database.go:2937`). Here a
  point is its identity, so two rows of one point agree in both. The check of an archive's entries
  knows duplicates and new ones, not the entries of live tracks that are skipped
  (3138) nor the empty file that is refused (3144).
* `VisitorSessions`: the three cookies are one identity, and a cookie that the
  browser has already is not written again (`pkg/analytics/service.go:524`).
* `RealtimeHistory`: a promotion passes over a reading without a dose rate
  (`pkg/database/database.go:3688`). The poller stores only readings that the same
  converter accepts (`convertIfRadiation`, `pkg/safecast-realtime/fetcher.go:424`).
* `ViewportLoader`: a page without a connection that keeps no cache of streams
  reports an error before the call that opens a stream returns
  (`public_html/map.html:10876`); in the model an error comes in a task of its own.
* `MapPlayback`: the buttons of the dock that stop or reset a playback; they call
  what the modelled ways to stop call.

### Composition

`DesktopImports` composes parts that drive each other: the archive is opened by
the import that holds the slot, its end decides whether a maintenance pass is
requested, and the import ends only when the archive reader and the request
have returned.

`MapPlayback` composes the loader and the playback, which write the same
markers, timer and token.

`SiteServices`, `BackgroundJobs`, `MarkerPaths` and `MapPage` put parts side
by side that share no state. What one may do never depends on the state of
another (of `MarkerPaths`: they are different sites, or read a table that stands
still; of `MapPage`: both parts follow Leaflet's events, and neither reads what the
other keeps), so the variable `moving`
picks one part per behaviour and the others stay in their initial state. Every
behaviour of every part is therefore there, and an invariant or property of one
part holds in all interleavings iff it holds in these; TLC visits the sum of the
state spaces instead of their product. The fairness of a part that stands still
asks nothing, because none of its fair steps is enabled in its initial state, or
the fairness names the part. `BackgroundJobs` has liveness of three parts; there
one formula is shared by steps of two parts, of which only one moves, and some
formulas ask for less than the part's own `Fairness`, which only makes what is
shown stronger.

## 3. The runs

| Run | Configuration | Question |
|---|---|---|
| `pipeline` | `PipelineCalls.cfg` | Does the pipeline keep what `SerialExecutor` promises and answer everyone? Can a busy lane starve another? |
| `site` | `SiteServices.cfg` | Do the caches keep their bounds and never stall? Do codes and visitor numbers stay consistent with parallel requests, a crash and a full queue? |
| `jobs` | `BackgroundJobs.cfg` | Is the archive there and renewed; is the loaders' history honest while pages shift and imports fail; does the limiter keep its burst and let everybody through? |
| `desktop` | `DesktopImports.cfg` | Does a bootstrap import always end, give back its slot and report the truth? |
| `markers` | `MarkerPaths.cfg` | Is what an import reports as stored really stored and shown, with collisions, failures and crashes? Does "done" of a rebuild mean done, and can one that broke off be repeated? Is the speed algorithm right on all short tracks? Do streams end complete, and do they ever wait for each other? Does any reading vanish in overlapping promotions? Is what the backfill records, a listing numbers and an archive holds true while imports run? |
| `page` | `MapPage.cfg` | Does the map end up showing the view, through moves, filters, failing streams and playbacks? Is there one base map, and does it show the view at rest, whatever animations, gestures, frames, errors and changes of theme went before? |
| `limiter_index` | `LimiterIndex.cfg` | (violation) the worker's index into an empty history |
| `rebuild_sqlite` | `RebuildSqlite.cfg` | (violation) the rebuild on SQLite |
| `playback_abort` | `PlaybackAborted.cfg` | (violation) a playback whose request ends |
| `playback_duckdb` | `PlaybackDuckDB.cfg` | (violation) a playback on DuckDB |
| `page_overtaken` | `MapOvertaken.cfg` | (violation) a second move before the first has loaded |
| `year_index` | `YearIndex.cfg` | (violation) the numbers in the listing of a year |

### Bounds, and why they are enough

* `pipeline`: two lanes, of one and two places; three calls, two of them on one
  lane, one of a kind that no lane has (it goes to the general lane), two with a
  context that may end. Two calls on a lane show order within it, one on the
  other shows the rotation; calls renew themselves, so any number follows. That
  no lane of five is overtaken more often is proved (`FairRotation`, section 5).
* `site`: two users, two URLs and three codes, two attempts: each user may show a
  code that the other takes, and run out. Two requests of one browser may both
  find no cookie; a queue of one overflows at the second message; one crash.
  The cache has two callers and one key with a lifetime of two ticks
  out of three, so an entry expires and is loaded again. Two tracks make the
  last one change under the two queries of the track numbers.
* `jobs`: one caller of `Fetch` (callers meet only in the coordinator's queue)
  and one restart.
  Up to five tracks on a provider's pages of two, so that a refresh spans three
  pages and one publication shifts the next; two faults; one broken track; the
  limit of known tracks is two. A burst of two and three heavy downloads of one
  address: the third is the first that is throttled. One cooldown tick separates
  "just finished" from "forgotten".
* `desktop`: two clicks, channels of one place (both overflow), an export and a
  file that is none, a maintenance queue of one, so that the second request
  waits.
* `markers`: uploads on SQLite: the same file twice, a longer one inside an archive
  and one without a valid point; two zoom levels (a point may have one row or
  three), a threshold of four rows, statements of two rows, two faults. A
  rebuild on PostgreSQL: one old track with hidden peaks, one with aggregates
  only, imports of two new tracks. Imports that *extend* a track under rebuild
  are excluded here; see section 6. Speeds: all tracks of up to four points with
  dates 0..3 (the first is 0: only differences count) at three places, one of them out of reach of the speed limit.
  Streams: two requests (a map with devices, a track or a playback beside
  devices alone) for three markers of two tracks in one
  cell, of which the second beats the first and the third does not; SQLite
  with its pipeline and four connections, and PostgreSQL; one failed query.
  Clients may leave, and the 45 seconds of any query pass, at every step. The two
  `playback_` runs have one playback and no failure.
  Promotion: a device that moves and one that does not, two promotions and
  two readings each, non-transactional and non-replacing (the weakest engine).
  Catalogue: four tracks, two of them of an older version and unregistered, three
  of them dated in the year asked for, pages of two, one failure or crash: an
  archive has up to three pages, and an import may register a track before, in
  or after the page that is read.
* `page`: two layers, one of which may fail once, two zooms, two places whose
  prefetched bounds overlap, so that a pan keeps some cells, drops some and loads
  some, and a third place whose cell is bare, so that its view has no dates; a
  date range that hides one cell, and a cell whose dates span it; two acts of the user after the opening
  (each act may come between any two callbacks of what the previous one
  started), two playbacks of one track with two points. `page_overtaken` has
  places whose bounds have only one cell in common. The base map: two centers,
  zooms, offsets and sizes, so that any one of them may be stale alone; one frame
  under way at a time (with two, `BaseMapLayer` alone was checked, too, and the
  proof needs no bound); pages with both styles, with one style and without
  support for MapLibre, which is the shipped one and shows tiles only. A throttle, a transition, a pinch and a frame may all be
  under way together.
* `year_index`: the catalogue above, by itself.

Counters that the program does not bound are capped by constants named for it:
`MaxTime`, `MaxFaults` (and `ListFaults`, `StreamFaults`), `MaxCrashes`, `MaxVisits`,
`MaxSources`, `MaxReadings`, `MaxActs`, `MaxFails`, `MaxFrames`.
Deadlock is checked where the system runs for ever (`pipeline`); the
others may stop once their bounded work is done.

### Fairness

Weak fairness says that a goroutine that can run does. Strong fairness is used in
three places, each of them a property of Go channels: a `select` picks at random
among its ready cases, so a case that is ready again and again is taken
(`ArchiveGenerator`, `VisitorSessions`), and a channel serves its blocked senders
in the order of their arrival, so a sender cannot be passed over for ever
(`RateLimiter`). In addition:

* the function of a pipeline job, a download, a database statement ends; clients
  need do nothing, no context need end, nobody has to click;
* the clock ticks (limiter, the 30 seconds of a maintenance request, tickers of
  loggers and loaders, the age of the archive);
* the builder of the archive does not fail for ever (`SF_vars(Replace)`):
  without this there may never be an archive;
* on the page timers fire, streams bring what they have and end or fail, and
  frames are drawn; the user need do nothing (`WF_vars(GoOn)`);
* `enqueue` spins on a full maintenance queue, so no fairness is assumed of its
  getting a place, only of its deadline.

## 4. The properties, and what could break them

| Property | Says | A change that breaks it |
|---|---|---|
| `NoLostCall` | a waiting call is queued, held or answered, exactly one of them | a job skipped without an answer |
| `TruthfulOutcome` | `nil` only after the function ran; context errors only for ended contexts | the worker hides an error |
| `ImplementsExecutor` | steps are steps of the abstract executor | a failed function is tried again |
| `EveryWaiterReturns` | no queued caller waits for ever | the blocking select prefers a lane |
| `BoundedOvertaking` | at most as many overtakings as lanes | a hit leaves the turn where it is |
| `BurstRespected` | running and just finished downloads stay within the burst | off by one in the admission |
| `EveryAcquireReturns` | each `Acquire` ends | the worker waits for the release itself |
| `BoundedStaleness` | no answer shows data a lifetime older than the request | the entry is stamped after the load |
| `OneLoadPerLifetime` | one successful load per key and lifetime | a load belongs to its caller |
| `RefreshNeverStops` | a refresh runs or a timer is set | a branch forgets to arm the timer |
| `SnapshotOnlyImproves` | a failed refresh takes nothing away | the failure is stored |
| `LinksAgree` | a code given out leads to its URL; codes and URLs correspond one to one | the table allows two codes for a URL |
| `SessionsAgree` | cookie, cache, table, queue and handlers agree on a number; an event's session is in the table unless its message was lost | the cached name is not sent along |
| `EveryRequestPasses` | no page hangs in the middleware | a miss is not answered |
| `ReadyMeansThere` | "ready" means the file exists | an unchecked rename |
| `EventuallyFresh` | a missing or due archive is replaced | the timer's signal is ignored |
| `NothingVanishes` | a live row disappears only into the markers | delete before insert |
| `HistoryHonest` | imported means stored | history is written first |
| `ImportedOnce` | a track with history is left alone | the lookup is dropped |
| `NewestImported` | a new track gets in whatever failed before | the page is not reset |
| `NeighboursDecide` | the loop in place equals its declarative definition | filled values are borrowed |
| `LastLineExact` | the log tells the truth at rest | one channel decides |
| `ImplementsSlot` | the composition keeps the slot's promise, liveness included | the last look has to find news |
| `EveryRequestLogged` | each maintenance request is answered | it gives up without a word |
| `MarkersRegistered` | no markers of an unlisted track | registration after the insert |
| `UploadsStored` | "stored" is stored | a conflict takes its statement with it |
| `UploadsShowPeaks` | no local peak is hidden | the lowest point stands for a cell |
| `UploadsReuse` | a repeated file opens no second track | `>` for `>=` at the threshold |
| `EndedIsComplete` | a stream that ended well brought the strongest marker of each cell, or each marker of its track | a winner is sent and not remembered |
| `NobodyStuck` | while a request has a goroutine left, some can go on without a deadline | SQLite has one connection |
| `DoneShowsPeaks` | "done" means that peaks are shown | a failed track is left out |
| `SourcesKept` | no source of the rebuild is deleted | tracks without raw points are deleted too |
| `CalmViewExact` | changes made one at a time leave exactly the view's markers | one side of a pan is not asked for |
| `PointsOnlyWhilePlaying` | a stopped playback draws no more points | the loop does not look again after a delay |
| `EventuallySettled` | a resting user gets a settled map | the last frame settles nothing |
| `BackfillHonest` | a registry recorded as synced, or as needing nothing, lists every track with markers | an empty registry is enough to skip |
| `NumbersRise` | over a complete registry no two tracks of an archive share a number | each page takes one off its base |
| `ArchiveWhole` | an archive has each track once that had markers when it began | paging ends at a full page |
| `BaseMapExact` | there is one base map, with the renderer its owner knows of, and at rest a vector layer has the camera, place, size and transform of the view | the update comes before the flag of the zoom is cleared |

Some properties are weaker than a reader may expect, on purpose: they say what
the code keeps. `NothingVanishes` excepts rows stored after a promotion read the
history of their device; `SessionsAgree` excepts dropped messages;
`LastLineExact` excepts dropped updates; `BackfillHonest` leaves out the reason
"already populated", and `NumbersRise` a registry that was incomplete when the
archive began; `EndedIsComplete`
excepts streams whose query failed; `CalmViewExact` excepts
loads that were cut short and loads that dropped the date range as they settled,
until the next full load; `EventuallySettled`, a page without a layer; `BaseMapExact`,
a page on which a map of MapLibre could not be made.
Section 6 has the cases they except.

## 5. The proofs

Eight modules hold proofs; none assumes more than the named assumptions on the
constants (`CallsAssumption`, `LanesAssumption`, `OrderAssumption`;
`EngineAssumption`, `DataAssumption`, `FilesAssumption`, `LimitsAssumption`,
`LegacyAssumption`; `VectorAssumption`; `LoaderAssumption` and `PageAssumption`;
`ServicesAssumption`, `JobsAssumption` and `PathsAssumption`, which gather those of
their parts), which TLC evaluates on the runs'
instances. What they ask of the data is that sets of points, of zooms, of layers, of
tracks of a catalogue and of markers of a stream are finite, that points are naturals in the order of their
doses, and that a value for "none" is no value of the kind it stands for. Some
theorems are about properties that do not hold for every value of the constants, or
of the program, and say what it takes, by definitions of their own where it takes
a few words: `RebuildShowsPeaks`, `DoneIsShown`, `FilesAreReused`,
`NobodyWaitsForEver` with `FewRequestsGoOn`, `ChannelsStayOpen`, `ListedNumbersLead`
and `ModestClientsSurvive`. The last three are what is left of claims that section 6
refutes.

**`SerializedPipelineProofs`**, for any set of calls, number and order of lanes
and any buffer sizes:

* `TypeCorrect`: `TypeOK` is inductive.
* `FairRotation`: `BoundedOvertaking` is not inductive, since it does not know
  how far the sweep has come. The strengthening `OvertakingInv` bounds the count
  of each lane with work by its distance: what it was overtaken, plus the lanes
  between the turn and it (`Gap`), plus what the sweep has still to probe. A hit
  moves the turn past the lane served, a miss moves it past an empty one.
* `CallsTracked`, `OutcomesTruthful`, `AbandonedJobsSkipped`: from `IInv`, that is
  types, `PlacedInv` (a queued job is in its own lane, once, and not in the
  worker's hands), `OwnedInv` (an owned job is unanswered, and a caller that left
  it had its context end) and `ToldInv` (what a caller was told agrees with the
  job's result). `NoLostCall` alone is not inductive: it does not exclude a job
  queued twice.
* `Refinement`: each step under `IInv` maps to a step of `SerialExecutor` or to a
  stutter; the mapping is `Status`.

**`ZoomRebuildProofs`**, for every engine, set of files, cell map and fault bound:

* `ImportTypes`, `ImportsRegistered`, `RebuildTypes`, `RebuildRegistered`: rows in
  the table *and those still in a batch or pending* belong to registered tracks
  (`Registered`); aggregates, chunks and admitted rows keep the track of the rows
  they are made of. The run `markers` checks `MarkersRegistered` on the site with
  the rebuild; `ImportsRegistered` covers imports alone on every engine.
  The two type invariants are proved and not among the properties of a run.
* `SourcesNeverLost`: the deletion touches only a track whose raw points the
  rebuild has read (`RebuildSound`); raw points are never deleted, so this stays
  so through every step of every import.
* `RebuildShowsPeaks`: if the engine is PostgreSQL. `ShowsInv` says that the tracks
  the rebuild is through with show their peaks and that those of the current one
  are in the rows still to insert, or in the table and these together (`Progress`);
  that an import holds the peaks of its own points (`BatchOk`); and that "done" is
  recorded at rest only and of a table that shows its peaks (`DoneIsSo`). Two steps
  break it, and the theorem is about behaviours without them. `NoneBetween`: an
  import stores to a track between the read of its raw points and the deletion of
  its aggregates, which takes the import's too. `RunsRecorded`: a rebuild begins
  over a recorded "done", because the state could not be read, and cannot record
  that it runs either. On the other engines the run `rebuild_sqlite` is the
  counterexample.

**`BaseMapLayerProofs`**, for any sets of centers, zooms, offsets and sizes that
hold the offset 0, any number of frames and any page:

* `BaseMapIsExact`: `BaseMapExact` speaks of a layer at rest and is not inductive.
  `BridgeInv` says of each flag of a layer which event is still to come: a zoom is
  flagged only while Leaflet animates one or two fingers are down; a canvas is
  scaled only during an animation; a size that is wrong has a frame to come; and
  without an animation, a flag or an update put off, the layer has had its
  update. One lemma per handler says what it does to the fields of a layer, one
  per kind of task that it keeps `BridgeInv`. `OneBase` is kept because every task
  of Leaflet maps the layers one to one, and every path of the owner takes the old
  layer off, with one exception: where the new map of MapLibre cannot be made its
  layer stays, neither usable nor removable. The model follows the page up to there,
  the theorem does not speak of it (`OneOrStuck`).

**`MarkerPathsProofs`**, for any engine, tracks, devices, readings, readers and
failures:

* `BackfillIsHonest`: the state is recorded one statement after the one that makes
  it true, so `CatalogueInv` also covers a backfill about to record; imports keep it
  because they register a track before they store its markers.
* `NothingIsLost`: only the move deletes live rows, and it promotes what it carries
  before; a row it did not carry came after the history was read. This is a
  property of steps (`Accounted`), two promotions of a device side by side included.
* `StoredIsStored`: `Sure` follows the rows of an import from the batch over the
  pending ones into the table, where the key of a row may be taken by another
  import already: then the other row is the same point (`Keyed`).
* `PeaksAreShown`: that every raw point has one at least as hot in its cell at each
  zoom is true of a whole batch when it is made (`BatchShowsPeaks`), and no longer
  of the table alone while chunks of several imports to a track go in. `PeaksInv`
  says it of the table with each batch (`BatchesPeak`), and of a raw row in the
  table that its peak is in the table, or in a batch, or that an import to the
  track was broken off (`TablePeaks`). That a cell has a hottest point at all is
  `Greatest` (of `ZoomRebuildProofs`), an induction over finite sets by a smallest
  counterexample.
* `FilesAreReused`: a probe counts rows. An import that is through has all rows of
  its file in the table, whoever brought them (`Known`), and they are as many as
  the file has points and winners (`Marks`, `MarksAreHits`), so its track is found;
  and no track has rows unless the import that brought its ID kept it (`Backed`),
  so the ID of the new import is not found. It needs `EnoughRows`, that a file
  that comes again has as many rows as the threshold asks (10 in the source, of
  which each point brings up to 21), and `OwnApart`, that no two usable files have
  one ID, which generated IDs have but for chance. The constants of the run
  satisfy both.
* `DoneIsShown`: `RebuildShowsPeaks` in the composition that the run checks; it
  follows because what the other parts do leaves the site with the rebuild alone.
* `NeighboursGiveSpeeds`: `GapsOk` compares the speeds as the loop changes them in
  place with those from before it (`Measured`): from the cursor on they are the
  same, before it each gap has what its neighbours imply (`Near`), and `last` is the
  nearest point with a speed of its own, not a filled one. The cursor stands at the
  beginning of a run of zeros, never inside. A negative speed stops it for good, so
  of a track with one the property asks nothing, and the invariant keeps track of
  that too.
* `ListedNumbersRise`, `ArchivesAreWhole`: in `ListingInv` the summaries, the page
  and what is left of the tables lie one behind the other (`ReadOk`, `ArchiveOk`).
  A number of the registry is the place of its track in a set that only grows; that
  each place is taken by just one track (`PlacesTaken`, `PlacesGrow`, `RowsOf`)
  makes a page the next tracks in their order, and `NumbersFit` says that numbers
  counted up from the first of a page stay within the places of its tracks, so that
  the next page begins beyond them (`NumbersOk`).
* `ListedNumbersLead`: what `year_index` refutes of a year holds of the whole list,
  of an archive over all its pages, and of a year if every track is dated
  (`Whole`), when the tables stood still and agree: each number leads
  to the track it is shown with. `PlacesOk` says that each number so far is the place of
  its track in the tables the listing began with, and the base of a page the place of
  the last summary (`BaseIsPlace`), because a page takes the next tracks without a
  gap (`PagePlaces`, `PlacesAdd`).
* `EndedClientsHaveAll`: `StreamsInv` follows the markers of each request through
  its goroutines: what the handler wrote is behind what the producer has read
  (`InOrder`); a cursor that ends without an error has read everything, and its
  channels are closed only then (`Cursor`); the aggregator remembers one marker
  per cell, the last of it that was sent (`CellWinners`). As long as the request
  goes on (`NothingDropped`), what the producer has read was written, except the
  marker that is in a goroutine's hands; of a map, the one remembered of a cell is
  at least as strong as each that was read. When the request is over goroutines
  may drop what they like, therefore the invariant keeps beside it what a client
  that was told of the end had by then (`Delivered`).
* `NobodyWaitsForEver`: "some can go on" is `CanGoOn`, the guards of the steps of
  `Progress`: each of these actions is its guard and values for all variables, so
  `ENABLED` is not needed. `TurnsInv` says which parts of a request may be
  where (`Roles`), and that the worker and its queue hold just the jobs that are
  queued or running (`InTurn`). If none can go on, every job that has no connection
  waits for one, and the connections are held by requests that wait for a second
  (`Holders`), and by one playback at a time where the pipeline runs them
  (`OnePlayback`). `EnoughConnections` says that the pool has one more than these
  can hold, so one is left (`OneIsLeft`), nobody waits for one, the worker is idle, and
  every goroutine has ended (`NothingStands`). It asks for finitely many
  requests. Of DuckDB, with one connection, it leaves only sites where nobody asks
  for a playback, nor for devices beside a map or a track; `playback_duckdb` and
  section 6 have the others. `FewRequestsGoOn`: for up to three requests of any
  kinds it is so on every other engine. The pool of PostgreSQL has no limit in the
  source; the 8 connections of the model stand for that.
* `ChannelsStayOpen`: the other side of `playback_abort`: where playbacks are not
  jobs of the pipeline, or there are none, nobody sends on a closed channel, whoever
  leaves and whatever fails.

**`SiteServicesProofs`**, for any callers, keys, lifetimes and clock, any users,
codes, URLs, clients and failures:

* `CacheTypes`, `NoStaleAnswers`, `LoadsAreSpaced`: an entry expires at most a
  lifetime after its data was read (`EntriesHonest`), a load belongs to an
  unanswered request and reads after it began (`LoadOwned`), and the entry of the
  last load covers its lifetime (`EntryLasts`).

* `CodesStayUnique`: rows are unique by code and by URL (`LinksUnique`), and what a
  user was given is in a row for good (`Given`), since nothing updates or deletes.
* `RefreshIsDue`, `SnapshotsImprove`: a refresh under way holds the snapshot it was
  started with, because nobody else replaces it meanwhile; it brings home either
  that one or a count that was true when it was taken, and tracks only get more
  (`RefreshHonest`).
* `SessionsStayOne`: in `NumbersInv` the identifier of a request that waits for
  its number is in use nowhere else, so whichever number it gets (drawn twice after
  a failed seed, or the fallback of an impatient client) agrees with everything; in
  `EventsInv` the message of a session is ahead of its event's in the queue, being
  written, in the table or lost.

**`BackgroundJobsProofs`**, for any sources, pages, callers, addresses and failures:

* `HistoryIsHonest`, `HistoryLasts`: between the markers and the history of a track
  lie several statements and perhaps a crash. `LoaderInv` says that the one worker
  has no history when it begins, and has stored the markers before it writes one.
* `ReadyIsThere`: `ArchiveInv` extends what a caller was told to what the builder
  reports and the coordinator holds (`outcome`, `result`).
* `BurstIsRespected`: `LimiterInv` balances the books of each worker (`AccountOk`):
  `activeHeavy` counts the heavy permits whose end it has not heard of, and its
  history, stamps of the others. That an address stays within its burst then
  follows for every download that ended within a cooldown and is still running for
  the worker, or stamped and not yet trimmed (`BurstOk`). The loop that trims the
  history is a recursive function; that it exists and what it returns
  (`TrimmingEnds`, `Trimming`) is shown by looking at the first step that fails.
* `CrashNeedsOverrun`, `ModestClientsSurvive`: the panic of `limiter_index` needs
  `Burst` heavy downloads of one address, all under way, and one more asked for
  (`Overrun`); earlier ones that ended never cause it, because the burst is reached with an
  empty history only if `activeHeavy` alone reaches it. An address with no more than
  `Burst` heavy downloads asked for, under way or remembered at a time never gets
  there.
* `JobTypes`: beside the types, what is bounded: there is a temporary archive just
  while one is built; the tracks a loader has imported of a page, the ones left and
  the one in work are no more than the page was (`LoaderTypes`), a walk asks for no
  more pages than there are tracks, and passes fewer known ones than its limit.

**`DesktopImportsProofs`**, for any clicks and any room in the channels:

* `LastLineIsExact`: the newest number the logger can still learn of (`Newest`) is
  the true one unless an update was dropped, and the logger ends only after it has
  emptied the channel (`LogInv`).
* `OneImportAtATime`: the token is in the channel, with the handler, or with one
  import, and nowhere twice (`SlotInv`), which is kept because every step of the
  composition is one of `ImportSlot` or a stutter (`SlotStepMaps`); an archive is
  read, and waited for, only by
  the import that has it (`ReadInv`). It is why one reader stands for all.
* `DesktopTypes`: beside the types, no channel is over its room and no entry is
  counted that the archive does not have.

**`MapPageProofs`**, for any places, zooms and layers of data and any page:

* `CalmViewIsExact`: `CalmViewExact` speaks of a page at rest. Of a page on its way
  there, `Gathered` says that each marker of the load is shown, in the painter's
  queue, or to come from a stream or the cache, unless a stream failed;
  `CoveredIsShown`, that what a settled page takes for covered is what it has
  loaded; `LoadIsCurrent`, that a load about an older view has a timer set. These
  are kept while the page is calm; `LoaderInv` is kept always, and says that a load
  has at most as many streams as it waits for (`LoadCounts`) and is over when they
  and the queue are (`SettledIsOver`). A load that settles may drop the range it
  was loaded with (`HideSlider`); the page is not calm from there to its next full
  load, unless no layer is ticked, when nothing can be missing.
* `PointsNeedPlayback`: `PlaybackOwns` adds that nothing but a playback is paused
  and that the page of a playback is not calm, which keeps the two apart. A load
  that hides the slider stops a playback with all its points.

Only model-checked: what needs fairness, which is beyond the prover:
`EveryWaiterReturns`, `EveryAcquireReturns`, `EveryRequestPasses`,
`EventuallyFresh`, `NewestImported`, `EveryRequestLogged`, `EventuallySettled` and
`ImplementsSlot`, because they say that something happens; of the last, the proofs
use that each step is one of the slot's or a stutter. Every invariant and every
other action property that a run checks has a theorem here. The modules whose `TypeOK` is not a theorem have what the proofs need of it in their
invariants; the rest was checked with TLC while they were written.

## 6. Where code and comments disagree

Six disagreements are runs:

1. `limiter_index`: `heavySeen` counts downloads in progress and completed ones
   (`pkg/api/ratelimiter.go:212`). When the whole burst is in progress the next
   request finds it reached with an empty `heavyHistory`, and
   `heavyHistory[0]` (213) panics in a goroutine that nobody recovers.
2. `rebuild_sqlite`: aggregates are copies of raw points that were read back with
   their id (1919); outside PostgreSQL `InsertMarkersBulk` keeps an id that is not
   0 and `ON CONFLICT DO NOTHING` drops each of them. The rebuild deletes all map
   layers and records "done".
3. `playback_abort`: on a single-writer database a playback runs as a job of the
   pipeline and sends into a channel that the goroutine which queued it closes as
   soon as its context ends (`pkg/database/database.go:3933`), that is when the
   browser stops the playback or after 45 seconds. A row that comes out of the
   cursor in that moment meets a closed channel and an ended context in one
   `select` (4036), which picks either; a send on a closed channel panics in the
   worker, and the process ends.
4. `playback_duckdb`: the markers of a track are queried (4023) while the cursor
   over the tracks is open (3993), with a pool of one connection (594). Each
   playback waits for itself for 45 seconds, in the only worker, and brings
   nothing.
5. `page_overtaken`: a pan that starts before the previous one has loaded builds
   on the bounds of the load before it (`public_html/map.html:11424`), whose
   markers the previous pan has already taken off the map. Pan away and back
   quickly, and the map settles without them, though it is to "Request markers for
   current bounds/zoom, render them" (11492).
6. `year_index`: a listing of a year or a month skips tracks, but numbers its rows
   one after the other (`pkg/database/tracks.go:160`, `pkg/api/handlers.go:1196`).
   The number is to let clients "fetch by number" (`pkg/database/models.go:51`);
   `/api/tracks/index/{number}` answers with another track.

The models show more than the runs keep. Each of these was seen in a
counterexample of the module named and can be stated again as a property of it:

* `RateLimiter`: a client that leaves between the grant and the receive drops the
  permit; its slot stays taken and its watcher waits for good
  (`pkg/api/ratelimiter.go:127`).
* `TrackInfoCache`: the count and the identifier come from different tables by
  separate queries, so "latest" may be a track without markers
  (`pkg/api/trackinfo_cache.go:281`); after a failure with an old snapshot the
  next attempt waits for the ttl instead of the retry interval (242).
* `RealtimeHistory`: a reading stored between the read and the deletion of a
  history is lost (`pkg/database/database.go:3710`); a reading that is served
  again after its promotion makes the next promotion fail on the unique key, each
  time, with every device behind it in the list (3697).
* `ArchiveGenerator`: the fallback of `replaceFile` leaves a moment, or for good,
  no archive (`pkg/jsonarchive/generator.go:745`); a failed rebuild hides an
  archive that is still there (244).
* `ShortLinks`: when the URL is stored by another caller between lookup and
  insert, every further attempt fails on the target and the caller is told that
  codes are exhausted (`pkg/database/shortlinks.go:108`).
* `ImportLoader`: a first load that stops at a failing page is never resumed
  (4257); tracks that a refresh itself imported, shifted by a publication, count
  as already seen and end it early (4332); AtomFast's history row is written
  before the metadata, which is then never written (4460).
* `VisitorSessions`: two first requests of a browser may become two sessions
  (`pkg/analytics/service.go:490`); after a restart numbers may be drawn again
  (263); handlers wait for database writes of the goroutine (438).
* `TrackImport`: the threshold of the duplicate probe counts rows of all zoom
  levels (`pkg/database/database.go:4275`); an entry whose import broke off is
  taken for a duplicate and never completed (3150); a failed import leaves a
  registered track without markers, which shifts the API's track numbers (3952).
* `ZoomRebuild`: an import that extends a track between the read and the deletion
  loses its aggregates for good (1916). The run `markers` leaves such imports
  out and checks the rest. A rebuild goes on when the state can neither be read nor
  set to "running" (1888, 1895); when it breaks off between a deletion and the
  insertion and "failed" is not recorded either (1918), a "done" of an earlier run
  stays, and no later start repairs the track. This takes three faults, and the run
  has two; `RunsRecorded` of the proofs names the case.
* `DuckDBMaintenance`: the pass cannot be cancelled although a comment says so
  (`pkg/database/database.go:196`); `defer cancel()` (3321) ends the context of a
  request before the worker looks at it (`pkg/database/database.go:188`), so a
  queued pass is dropped unless the worker is quicker.
* `MarkerStreams`: when the query for markers fails, the `select` of the handler
  may see the end of the stream before the error (7674, 7685) and tell the client
  that a truncated stream is complete; a playback ends without a word in either
  case (7327). The cursor of a map is open while the request waits for the live
  devices, so on DuckDB each map with devices waits for its own connection until
  the 45 seconds are over, as four maps at once do on SQLite. A playback holds
  the worker of the database as long as its reader takes, and is cut off after
  45 seconds.
* `TrackSpeeds`: speeds that come with the file survive where dates repeat (1730);
  a negative one stops the cursor of the gap loop (1761). The run has no
  negative one; the theorem about the gaps allows it.
* `ImportSlot`: the token is back before the last report, so the report of one
  import may overwrite the status of the next (5850).

* `TrackCatalogue`: an import that registers its track before the backfill looks
  makes the registry count as populated for ever, and the tracks of the older
  version stay unnumbered (`pkg/database/tracks.go:897`; `DoneMeansComplete` of the
  module states it). A state "failed" is recorded, too, and keeps the backfill from
  running again (827).
* `VectorLayer`, `BaseMapLayer`: after a theme changed by the differences of two
  styles MapLibre announces nothing, so the style never counts as ready again and
  the next tile that fails drops the page to raster tiles
  (`public_html/map.html:7243`). The bundled MapLibre 5 has no
  `maplibregl.supported`, so the probe (7139) always answers no and every page
  gets the tiles; the models cover both answers. If it were there, a MapLibre that throws when
  it is made would end in `onRemove`, which calls `remove` on nothing
  (`public_html/leaflet-maplibre-gl.js:58`), before the fallback is reached: the page
  keeps a layer without a map, which answers each event and each selection of a base
  with an exception ("stuck" in the model). The frame of a removed layer ends with a
  `TypeError` (314).
* `ViewportLoader`: a load that settles on a view without a dated marker hides the
  slider and drops the stored date range with it (`public_html/map.html:11309`, 9552),
  and one whose view has exactly the dates of the range drops it as no filter (10165).
  Nothing is loaded again, so the markers that the range had hidden stay off the
  map, and a pan that builds on what is covered does not ask for them either, until
  the next change of zoom or filter.
* `MapPlayback`: markers in the queue of an unfinished load are drawn over a
  playback that started "on a clean surface" (`public_html/map.html:9226`); a loop
  that slept when its playback was stopped goes on in the next one's state if
  that starts within the delay; pressing play with no layer ticked cancels the
  pending update, and the overlay of the load stays; a forced update that waits
  in the debounce timer is replaced by a later one that is not forced.

## 7. Plan

Order of work, most important first; a part that shares no state with another joins
one of the compositions of section 2 and its run, as the streams joined
`MarkerPaths`:

1. Done: the core (`SerializedPipeline` and its proofs), storage and rebuild with
   proofs, the caches and the limiter, loaders, promotion, archive, links,
   visitors, the desktop import as a composition, the streams of markers, the
   page of the map with its playback, the catalogue of tracks and the base map of
   the page; proofs about most of them (section 5).
2. Done: theorems for every invariant of the runs and for the action properties,
   and the counterparts of three claims that the violation runs refute. Next: type
   correctness of the parts that only have it inside their invariants.
3. `IndexBuild` and `Shutdown`: `EnsureIndexesAsync`, the rebuild that waits for
   it, and what `main` waits for at the end (8730-8752).
4. `ProviderClient`: the retry loop of the AtomFast client, under `ImportLoader`.
5. `TrackImport` on ClickHouse, where check and insert are separate statements,
   and uploads of several files into one track.
6. The page: the live sensors' layer, the thinning of overlapping markers, the
   track view and its playback, the box of the short link.

Not modelled, and why: the parsers of KML, CSV, RCTRK, LOG, CIM and JSON files
and the spectrum analysis (pure functions over characters and floats), the
country resolver (generated tables), the HTTP clients of the providers beyond
"a page or a failure", the database drivers (libraries), the vendored Leaflet and
MapLibre beyond the parts that the bridge listens to and calls, users and
devices (single upserts), the buffered logger (logging), the setup wizard, file
dialogs, QR codes and build scripts (I/O without shared state), and the rest of
the browser front end (popups, charts, legends, translations: presentation).
