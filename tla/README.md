# Formal model of keldron-agent

TLA+ specifications of keldron-agent, TLC configurations that check them on
small instances, and TLAPS proofs of the properties that matter most for every
size. Line numbers refer to `src/` at the commit the project was written for.

Parse, check and prove with

    tlasany BufferManager.tla
    tlc -config Buffer.cfg BufferManager.tla
    tlapm BufferProofs.tla

`PROJECT.json` lists the runs, the code each definition stands for, a mutation
of the code that breaks each property, the hazards and the theorems.

## 1. The system

The agent polls hardware through *adapters*, turns readings into telemetry
points in the *normalizer*, and sends them out. With a gRPC target the points
go through the *buffer manager* to the *sender*; scored samples go to the HTTPS
*cloud client*; a dashboard, Prometheus and a fleet hub show the last batch.

    adapters --> normalizer --> tee --+--> buffer manager --> sender --> platform
        ^                             |     (ring, WAL)   <-- OnConnChange
        |                             +--> output bridge --> score and health engines,
    configuration                     |                      API, WebSocket, Prometheus, hub
    holder <-- watcher                +--> cloud batches --> cloud client --> ingest endpoint

| Component | State | Operations | What is hard | What makes it correct |
|---|---|---|---|---|
| Ring (`buffer/ring.go`) | slots, head, tail, count | Push, Pop | index arithmetic at the wrap | it is a bounded FIFO queue |
| WAL (`buffer/wal.go`, `segment.go`) | segment files, list, active segment, running total | Write (prune, rotate, append, sync), Drain, Close, recovery | failing system calls, kills between append and sync, a drain goroutine beside a writer | an acknowledged point survives; order; size kept |
| Buffer manager (`buffer/buffer.go`) | ring, WAL, output channel, connected, wake-up channels | Start, ingress, egress, drain, OnConnChange | four threads, one lock, one-token channels, shutdown | FIFO across ring and WAL, nothing lost, no missed wake-up |
| Sender and batcher (`sender/`) | batch, sequence number, back-off, stream | Start, runOnce, flush | a stream that dies at any moment, retry delays, last flush | order, gaps show losses, termination |
| Cloud client (`cloud/client.go`) | retry buffer, in-flight count | Send, Close | concurrent Sends, lost answers, overflow | one owner per sample, nothing left behind |
| Registry, normalizer, tee, bridge, shutdown (`registry.go`, `normalizer/`, `main.go`) | channels, batches, what each goroutine holds | StartAll, Start, tee, flush, sendCloud, the shutdown sequence | fan-in against cancellation, a blocking output, the order of stopping | the exit is reached unless a browser that does not read is in the way; only the dashboard may miss readings |
| Config holder and watcher (`config/`) | current config, subscribers, timer | Load, Update, Subscribe, reload | layers of settings, overlapping reloads, slots that are reused | subscribers work with the stored configuration; readings go where the settings say |
| Hub, scraper, browser (`hub/`, `discovery/`) | peers, failures, metrics cache | AddPeer, MarkUnhealthy, scrapeAll, gather | concurrent scrapes, names that change with a restart or are shared | what is served belongs to what is listed |
| Dashboard API (`api/`) | last batch, history ring, WebSocket clients | Update, tryAdd, broadcast, closeAll | a handler beside the broadcast and the closing | every open browser has the latest state |
| Health engine (`health/`) | series of samples per device | append, snapshot, panels | pruning, missing readings, a limit learnt late | the spike shown is the latest one |
| Score engine (`scoring/`) | rings per device | Score | rings that wrap, piecewise formulas | scores over the latest readings, which a hotter reading lowers only by being a steadier one |
| Kubernetes adapter | map of pods, totals | callbacks, resync, Stop | a list read before the lock | the map catches up with the cluster |
| Temperature adapter | interval, broadcast channel, tickers | Start, reload | a channel closed and replaced while sensors look at it | every ticker follows the interval |
| SNMP PDU adapter | sets of connections | Start, reload, Stop | the swap beside polling and stopping | every connection is closed by somebody |
| Seven adapters with one poll loop | ticker, interval, stop signals | Start, reload, Stop | the ways an interval reaches the ticker | the ticker follows, the loop ends |
| CLI tools, front end, protocol decoding | - | - | formatting and I/O | - |

The hazards of each are listed at their lines in `PROJECT.json`.

## 2. Modules

| Module | Models | Used by |
|---|---|---|
| `BoundedFifo` | what the ring promises: a bounded FIFO queue | `Ring` (refinement) |
| `Ring` | `ring.go`, slot by slot | |
| `PointLog` | what the WAL promises the manager: a queue handed over batch by batch, which may refuse, prune or skip | `WAL` (refinement), `BufferManager` (component) |
| `WAL` | `wal.go` and `segment.go`, file by file | |
| `BufferManager` | `buffer.go`, composed of the ring's queue, `PointLog` and the sender's loop | |
| `Sender` | `sender.go`, `batch.go` and the network | |
| `CloudClient` | `client.go`, the bridge's spawning of sends, and the platform | |
| `Pipeline` | adapters' channels, normalizer, tee, bridge, cloud goroutine, `main`'s start and shutdown | `Services` |
| `ConfigReload` | `watcher.go`, Holder.Update and Subscribe | `Services` |
| `PollLoop` | the seven adapters with one poll loop | `Services` |
| `Sensors` | the temperature adapter's interval broadcast | `Services` |
| `PodWatcher` | the Kubernetes adapter | `Services` |
| `Dashboard` | the bridge's flush with `api/`, the gauges and the hub's local devices | `Readings` |
| `Fleet` | `hub/` and the mDNS browser | `Readings` |
| `HealthWindow` | `health/window.go`, `engine.go` | `Readings` |
| `Scoring` | `scoring/` | `Readings` |
| `Views` | which point and key of a batch each reader takes | `Readings` |
| `Pdu` | `snmp_pdu/adapter.go` | `Readings` |
| `Settings` | Load, Validate, the choice of mode, the health pages | `Readings` |
| `Services`, `Readings` | a behaviour of one of their parts, and properties several parts share | |
| `RingProofs`, `BufferProofs`, `WalProofs`, `SenderProofs`, `CloudProofs`, `ServicesProofs`, `ReadingsProofs` | theorems, see section 5 | |
| `Lemmas` | lemmas on sequences, sets of numbers and rings that those share | the proof modules |

The modules carry their own bounds as constants, so the configurations give
them values directly. A definition commented *Mutant* is a plausible bug; the
specification does not use it and `PROJECT.json` says which property it breaks.

`Services` and `Readings` are unions: `subject` picks one part, the others stay
in an initial state. In the program the parts meet only through channels and
callbacks, and what one does to another is an action of the module of the other: a reload is `Configure` to a poll loop, main's Stop is
`LoopStop`, the cancelled context is in each of them. Checking a product of all
parts would add interleavings of steps that touch nothing in common. Real
compositions are `BufferManager` (ring, log and sender), `Pipeline` (all
goroutines between adapters and exit), `Dashboard` (the bridge and all who look
at its result) and `Fleet` (browser, scraper and handlers on one registry).

### Ring

`items`, `head`, `tail` and `count` are the fields of the struct; `ret` is the
result of the last call. Each method holds the mutex throughout and is one
action per outcome. `Contents` reads the window from `head`, and is the queue
of `BoundedFifo`.

### WAL

`files` maps a segment's number to its records; `segments`, `active`, `totalSz`
and `nextSeq` are the fields of the struct. Write is split at its system calls
(`phase`), because a kill may fall between any two of them; nothing else takes
the lock meanwhile. Drain takes the list under the lock, and its goroutine then
runs free: put a record, skip a rotten one, skip a torn one with whatever its
length covers of the next, go to the next segment, end, or abort on an open
error or a cancelled context. A record is `RecSize` units long and a torn one 1
unit; a point is its number in the order of writing. `Faults` chooses which
system calls may fail; `AfterKill` is what a kill before the sync may leave of
the last record. Where pruning cannot ask for a segment's size it forgets the
segment and keeps the size in the total; `unstated` remembers how much that is,
until a drain or a start computes the total anew. Close may fail at its sync and
leave the log as it is. At a start every segment of the directory can be asked
for its size; one whose `Info` fails is skipped by the code and would stay in the
directory for the next start.

To the manager the log is `PointLog`: the points in the listed segments
(`log`), those a drain has still to read (`feed`), and the drain's channel
(`ch`). `hasData` is a variable of its own there, because HasData says yes for a
log that holds no readable point.

### Buffer manager

Threads: ingress; egress, which also stands for Start (it drains before it
launches the goroutines); the log's drain goroutine; the sender's loop, which
calls OnConnChange. `ipc`, `epc` and `cpc` are their places in the code.
`connMu` is modelled where a lock is held over several steps: the two flushes.
The other critical sections are one action each. `connected` is read by egress
outside the lock and written by a connecting sender without it, as in the code.
The one-token channels are booleans. `Lossy` says whether the log may refuse a
write, prune, skip or abort; it stands for disk failures and the size limit.

When the context is cancelled egress gives up a drain in one step: the point in
hand, the channel and what the goroutine has not read yet. The goroutine may in
fact read a little further before it sees the cancellation; nobody receives
what it reads.

### Sender

`pc` is the place in Start and runOnce. The network is external: a stream may
die at any moment and takes with it what it holds, a batch may be delivered,
and what a closed stream still holds may be dropped. A batch is numbered and
taken from the batcher before the send can fail, as in the code. The delay is
kept as a number; only its computation is modelled, not the time it takes.
receiveAcks reports the death of the stream and otherwise only logs.

### Cloud client

A call of Send takes the buffer and its own samples under the lock (`Snapshot`),
posts them, and is answered, refused for good, or fails; a failure may come
before or after the platform has stored the request. Failed calls put their
samples back in front of the buffer and trim it. The platform stores requests
as sets under their keys: the key is a hash of the sorted identities of the
samples, so equal sets have equal keys. Close waits for the counted calls and
sends what is left through one more call. In `main.go` the output bridge waits
for its own Sends too, before Close is called; the model does not rely on that.
A request the platform accepts while it rejects some of its samples is answered
for good, and the client only logs the rejects: they are counted as the platform's.

### Pipeline

Every goroutine is a process with a place in `at`, every channel a sequence in
`chan`, and `hand` is what a goroutine has received and not passed on. `mode` is
what the configuration asks for: the bridge or the buffer read the normalizer
directly, or the tee feeds the buffer, the bridge and the cloud goroutine. A
send to a full channel waits, drops or watches the context as its select says.
The buffer manager may stop reading for ever (a sender without a connection)
and returns once cancelled, which is what `Buffer` and `Sender` show. A flush of
the bridge is a step of its own that need not end, because it writes to browsers
without a deadline; `main` closes the servers, and the browsers with them, at a
place of its own (`"servers"`), after it has waited for the bridge. Histories
(`accepted`, `buffered`, `shown`, `uploaded`) record what passed each place.

### Configuration: ConfigReload and Settings

A configuration is the number of the edit that wrote it. The timer runs `reload`
in a goroutine of its own, so two may overlap; a reload loads, stores under
`mu`, copies the subscribers under `subMu` and calls them one by one. `subs` is
the list with its `nil` slots; a subscriber's closure remembers its slot.
`overlapped`, `unseen` and `late` record the cases in which the code does not
promise agreement.

`Settings` has no steps: an initial state is a file, an environment, a stored
login, what is detected and the flags, and the operators are what Load,
Validate, `main` and the health endpoint make of it.

### Adapters: PollLoop, Sensors, Pdu, PodWatcher

`PollLoop` is one adapter of any of seven kinds; the sets at its head say how
they differ. In `Sensors` a channel is the number of its generation, closed when
a later one exists; every lock is a step. In `Pdu` the connections made by one
createPollers are one set, known by a number; each set is in place, detached by
Start's end or by Stop, or in the hands of a callback. In `PodWatcher` the
informer updates its store and calls the handlers later, in order; the resync
reads the store in one step and replaces the map in another.

### Dashboard and Views

A flush is a sequence of steps (store, broadcast, history, reset and set the
gauges), between which WebSocket handlers come and go. History is the ring with its slots. `Views`
takes one batch and computes, for each of nine readers, which value it shows; a
value is named by its point and key, so two are equal only if they are the same.
A point may have any of the keys the score reads, of those that only the cloud
reads (`CloudOnlyKeys`), or none.

### Fleet

A peer's devices and metrics are the version of what its /metrics said; a peer
without a flush has no name and is known by its address, any other by the
`device_name` of its configuration, which another agent may have too. A scrape is
queued, passes the semaphore, fetches, updates the registry and notifies the
cache, each a step. What it fetches may be any version: agents flush, die and
come back between two scrapes. The browser finds and loses them, and a failed
browse is a cycle that found nothing. scrapePeer parses its answer twice, for the
devices and for the cache, by the same parser from the same bytes, so the second
parse fails only where the first has ended the scrape already. A name does not
change while the hub runs.

### HealthWindow and Scoring

Numbers are integers and thresholds are compared after multiplying out.
`HealthWindow` keeps one device's series with its `spikeStart`, appends with
pruning and cap, learns the limit late, and computes the four panels.
`Scoring` keeps the rings by slot and the sub-scores in tenths of a point with
the registry's entries of two GPU classes.

## 3. Runs

| Run | Module | Question | Result |
|---|---|---|---|
| `Ring` | Ring | is the circular array a bounded FIFO queue? | holds |
| `WAL` | WAL | a healthy disk, the size limit, drains beside writes | holds |
| `WALfaults` | WAL | every fault, a kill, a restart | holds |
| `Buffer` | BufferManager | a sound log: order, no loss, wake-ups, delivery, shutdown | holds |
| `BufferLossy` | BufferManager | a log that refuses, prunes, skips | holds |
| `BufferBoot` | BufferManager | does ingress start while disconnected? | **violated** |
| `Sender` | Sender | order, gaps, losses, termination | holds |
| `Cloud` | CloudClient | ownership, losses, Close | holds |
| `CloudOldest` | CloudClient | are the oldest samples dropped? | **violated** |
| `CloudDuplicates` | CloudClient | does the key prevent duplicates? | **violated** |
| `Services` | Services | losses, shutdown, reloads, intervals, the pod map | holds |
| `Readings` | Readings | what is shown, served, scored, closed and configured | holds |

What the last two show, property by property:

- `OnlyDashboardMisses`: every valid reading reaches the buffer, and the bridge
  where it reads directly, once and in order; the cloud gets what the buffer
  gets; the dashboard alone may miss some. It speaks of the time before the tee
  ends, since the tee drops what it holds on cancellation.
- `Shutdown`: after the signal the agent exits, whichever goroutine is blocked,
  unless `main` waits behind a flush or a closing that writes to a browser which
  does not read (`BehindClient`); a poll loop that is stopped or cancelled closes
  its readings.
- `SubscribersFollow`, `CatchesUp`: when no reload runs, subscribers have the
  holder's configuration; once edits cease the holder has the last one, and the
  pod map is the cluster's.
- `IntervalsFollowed`: a ticker runs at the configured interval, in every
  adapter, between polls.
- `BridgeKeepsAll`, `ViewsAgree`, `NoMissedUpdate`: each point is in one flush;
  between flushes the API, the history, the gauges and the hub show the same
  batch; an open browser has the version it would find.
- `ServesWhatItLists`, `DownPeerShown`: the hub serves of a peer the metrics
  whose devices it lists, or, if it shares its name, perhaps those of a namesake
  in their place, which are again the ones listed of that one; a peer that stays
  down becomes unhealthy.
- `SpikeReported`: the recovery panel is about the latest finished spike, and an
  active one is not shown to be longer than it has been.
- `OnlySteadierIsSafer`: the rings hold the latest readings; a hotter reading
  never lowers the thermal score, nor more watts or less memory theirs; it may be
  the steadier one and lower the volatility, and the composite then falls by no
  more than that weighs, and otherwise not at all.
- `ViewsShowScoredReading`: whoever shows a device shows the reading that was
  scored. Where the score read no temperature the cloud may still be sent one, under
  a key the score does not know; the gauges and the hub stay at the last
  `temperature_c` of the batch.
- `NoPollerLeaked`: every open set of PDU connections has a thread that will
  close it, and nothing is swapped in behind Stop.
- `SettingsRespected`: an accepted configuration leads readings somewhere, a
  stored login means HTTPS streaming, and the two health pages agree.

Properties that belong together are one formula: `SegmentsSound`
(`ActiveIsNewest`, `SizeAccounted`, `SizeBounded`), `Recoverable` (`Durable`,
`DrainOrdered`, `SizeNotOverstated`), `LossesVisible` (`GapsShowLosses`,
`LossNeedsFailure`), `Progress` and `CloseComplete` with their parts named in
the modules.

### Where code and comments disagree

- **`BufferBoot`.** `buffer.go:22`: "While disconnected, new points write
  directly to WAL". Start first drains what an earlier run left, to its end
  (`buffer.go:118-121`), and the drain blocks on the output channel. With more
  points left than that channel holds and a sender that cannot connect, ingress
  is never launched: points back up into the normalizer, and from there into
  the adapters, which drop readings. The same happens to a healthy agent for as
  long as the drain takes.
- **`CloudOldest`.** `client.go:127`: "oldest samples are dropped when full".
  Each failed Send puts its samples in front of the buffer. If two overlap and
  the newer fails last, its samples stand before the older ones and are dropped
  in their place.
- **`CloudDuplicates`.** `client.go:145-146`: "re-buffered retries send the same
  key, enabling server-side deduplication". There is no retry as such: the next
  Send takes the buffer together with its own samples, so its key differs. When
  the answer to a stored request is lost, its samples are stored twice. (Close
  repeats the key only if nothing else has come back to the buffer.)

### Bounds, and why they are enough

- `Ring`: three slots and three different points make every position of head and
  tail, full and empty, occur; the state space is finite without a bound.
- `WAL`: five points, a segment of two records, a limit of three records: two
  rotations, pruning with and without an active segment, several drains.
  `WALfaults` gives up two points and a record of the limit for a restart and
  all faults.
- `Buffer`: one point left over and three new ones with a ring and channels of
  one: each place can be full while another point waits behind it, and a point
  can overtake another wherever the code allows it. `BufferLossy` has a ring of
  two, so that a flush moves several points.
- `Sender`: two batches of two, two failed attempts in a row, delays 1 to 3, so
  the delay doubles once and is cut off once.
- `Cloud`: three Sends and Close, four samples, batches of up to two, a buffer of
  two: two failed Sends overflow it.

- `Services`: two adapters, two readings and channels of one, so every channel
  can be full while its writer waits; two subscribers, one built from the
  configuration main loaded, two reloads at once and two edits of which one is
  refused; three intervals; two sensors, two callbacks and two changes; two pods
  with none or one GPU and two changes in the cluster.
- `Readings`: three points of two devices and a history of two, so that it wraps;
  two browsers, so that one that is gone or does not read can stand in the way of
  the other; one static and one advertised peer, in one network with names of
  their own and scrapes one after the other, in another with one name and scrapes
  at once, of which the static one flushes twice, so that an old version can take
  a new one's place; a series of four samples over four of five ticks, with temperatures
  below, at, between and above the two targets, so that a spike by the one may be
  none by the other; four readings for rings of two and three, at temperatures
  below, near and above the limits and equal ones in a row, so that the
  volatility may rise and fall; every batch of three points with two timestamps
  and no key, one the score knows, two, or one that only the cloud knows; two
  target lists and two reloads at once; every mix of the settings that decide
  mode, keys and outputs.

Counters stop at their bounds (`MaxPoints`, `MaxStarts`, `MaxFailures`,
`MaxSamples`); the specifications say which constants are such bounds.

### Fairness

Each goroutine that can run is scheduled (weak fairness of its own steps).
Beyond that:

- `WAL`: only the drain goroutine is scheduled. The manager need not receive, so
  `DrainEnds` says: a drain that never ends is a goroutine waiting with a point on
  a full channel.
- `Sender`: Go's select chooses among ready cases at random, so a cancelled
  context is not passed over for ever; this is strong fairness of `FinalFlush`.
- `Sender`: a connection attempt also ends one way or the other, and a live stream
  delivers. `MaxFailures` bounds the failures in a row.
- `CloudClient`: a request ends, because client and context carry timeouts.
- `BufferManager`: nothing makes a connection come back. `Delivery` assumes in
  its statement that the connection finally holds.
- `Services`: sends and adapters' polls end within their time-outs, and so does
  closing the servers where there is no bridge and hence no browser; neither a
  flush nor closing the browsers is assumed to end; timers fire; the informer
  calls its handlers and its ticker ticks.
  Nothing is asked of the buffer's reading. A poll loop whose select finds the
  context done again and again takes that branch (strong fairness of
  `LoopReturn`), because select chooses at random.
- `Readings`: a browse and a scrape end within their time-outs and every scrape
  goroutine gets the semaphore.

## 4. Observations

Facts of the code met while modelling, beyond the violated comments:

- A point egress holds, the output channel and the drain's channel are lost at
  cancellation (`buffer.go:235-239`, `260-266`), and a drained segment is
  removed once its points are in a channel (`wal.go:176`). `NothingLost` is
  therefore stated up to cancellation, and `Recoverable` counts a point that was put
  on the drain's channel as handed over.
- After a failed close or create in a rotation the full segment stays active
  with a closed handle, and writes fail until the next drain
  (`wal.go:262-284`).
- A torn record is framed by its length, so the drain also skips the record it
  reaches into (`wal.go:198-213`). A write reported as failed at its sync may
  still be drained later.
- Drain sets the total to zero while the files remain until they are read
  (`wal.go:163-166`); meanwhile the directory may exceed the limit.
- When pruning cannot stat a segment it drops it from the list without reducing
  the total (`wal.go:111-114`), and the file stays. The total is then too high and
  the log prunes early until the next drain or start.
- A drain that stops on an error leaves its segments in the directory but in no
  list; only the next start finds them (`wal.go:171-175`).
- Egress reads `connected` without the lock and may go on sending after a
  disconnect (`buffer.go:206`). The points wait in the output channel; order and
  completeness are not affected.
- A batch whose send fails is lost (`sender.go:247-262`); the platform sees a gap
  in the sequence numbers, which `LossesVisible` states. Numbers restart at
  one with the process.
- The delay is computed after it was waited, so a failure right after a good
  connection still waits the old delay (`sender.go:136-148`).
- At cancellation the last batch is queued and its stream cancelled on the next
  line (`sender.go:222-223`), so it may not leave the process, although the
  separate stream context is there to let it (`sender.go:167-168`).
- The tee returns on cancellation without emptying the normalizer's channel
  (`main.go:321-345`), while the normalizer's send does not watch the context
  (`normalizer.go:208`): that goroutine may stay blocked until the process ends.
- Every reading is scored twice when there is a cloud channel, by the bridge and
  by the cloud goroutine, in the same windows (`main.go:551`, `604`, `611`).
- Prometheus resets the gauges and sets them again while /metrics may be gathered
  (`prometheus.go:375`), so a scrape may find devices missing.
- A browser that does not read blocks the broadcast (`websocket.go:107-110`), and
  with it the bridge and the shutdown that waits for it (`main.go:471`); closeAll
  writes a close frame to each in the same way, outside the time-out of the
  server's shutdown (`websocket.go:123-137`, `server.go:73-77`). A handler
  may send the state it read after a newer broadcast, and a browser whose upgrade
  is under way may be added after closeAll.
- Overlapping reloads may announce in another order than they store
  (`config.go:930`); a store between a subscriber's construction and its Subscribe
  is missed (`normalizer.go:129`); an edit between Load and the start of the watch
  is not seen; a file that is missing at a reload loads the defaults
  (`config.go:428-446`).
- The relay of an interval drops it when its channel of one is full
  (`apple_silicon/adapter.go:143`, `linux_thermal/adapter.go:146`). fake, dcgm,
  slurm and apple_silicon never unsubscribe. A sensor of the temperature adapter
  misses a change made between its ticker and its first look at the channel.
- A PDU reload that changes credentials but no target is ignored; overlapping
  reloads may leave the older targets.
- A pod deleted between the resync's list and its lock comes back until the next
  resync (`kubernetes/watcher.go:201`).
- Agents with the same `device_name` share an entry of the hub's cache
  (`scraper.go:110-118`, `hub.go:118-125`): the fleet API lists both, and /metrics
  serves under both the metrics of whichever was scraped last.
- The hub serves an unhealthy peer's cached metrics; ids a peer no longer uses
  stay in the cache; one agent under two addresses counts twice; a failed browse
  marks every peer seen before as unhealthy (`mdns.go:80-84`, `116-121`).
- A missing temperature restarts a spike's start in its middle (`window.go:112`),
  so an active spike may be shown shorter than it is, and one whose last sample
  has no temperature may be shown with a recovery of zero seconds.
- When a point names the device's model in the middle of a spike, the target moves
  and the spike keeps the start it had under the old one (`engine.go:96-113`,
  `window.go:105-114`): by a higher limit it is shown from a time at which the
  device was below the new target. A reading at the target does not begin a spike
  that the next one is in, as the comment at `window.go:37` has it ("from at or
  below"); the start is then found from the samples, and is that reading's.
- A device that reports only `temperature_junction_c` is scored by it, but has no
  temperature gauge, and the hub shows 0.
- The zones of `linux_thermal` report `cpu_temp_c` alone
  (`linux_thermal/adapter.go:267`), which the cloud's samples show
  (`convert.go:78-81`) and the score does not read (`engine.go:62-72`): the cloud
  shows a temperature beside a risk computed without one.
- A hotter reading may lower the volatility, and by it the composite: 60 after 60
  is steadier than 40 after 60, and both are far below any limit.
- With a cloud key and no hub, Prometheus is configured but not served; a key with
  the default target starts a gRPC sender to localhost; an agent that only
  streams over HTTPS is healthy and never ready; `--local` or `--quiet` may leave
  no output at all.

## 5. Proofs

All proof modules are checked to the last leaf. They assume what the modules
declare of their constants and nothing else: sizes, bounds and limits are
numbers, positive where the code needs it (`RingSizeAssumption`,
`BufferAssumption`, `SenderAssumption`, `DashboardAssumption` and their like); the empty slot is not a point
(`ZeroAssumption`); the thread that closes the cloud client is not one of those
that send (`CloserAssumption`); no adapter has the name of a pipe or of another
goroutine (`PipelineAssumption`); configured and advertised peers, the hub itself
left out, are among the addresses, and names and limits are given out in some
way, whichever (`FleetAssumption`); a point's temperature keys are among those some reader
knows (`ViewsAssumption`). Every set of devices, clients,
senders, subscribers, peers and targets is arbitrary.

A theorem follows the same three steps everywhere: what starts, what every step
keeps, and what that means. Each inductive invariant was checked with TLC before
it was proved.

- `RingProofs`. `TypeOK` is inductive; with it the slots outside the window are
  empty, and reading the window from head maps every step to one of
  `BoundedFifo` or to none. The work is arithmetic modulo the capacity, done in
  lemmas on `Slot`.
- `BufferProofs`. `IInv == TypeOK /\ Ended /\ RingFlushed /\ NoLostWakeup`.
  `TypeOK` carries the facts that tie the threads' places together (who holds
  the lock, when a drain runs); without them `RingFlushed` is not inductive.
  `Ended` ties closing to both goroutines having returned, which gives
  `NoSendOnClosed`. For the order, the whole pipeline, from what the sender has
  received back to the point ingress holds, is read as one sequence.
  `StepKinds` shows that a step leaves it as it is, appends the next number, or
  thins it, the last only if the log is lossy or the context cancelled.
  `OrderInv` follows, and from it `InOrder` and `NothingLost`.
- `WalProofs`, in layers, each proved with the ones before it. `Structure`: the
  listed and the drained segments are files in the order of their numbers, the
  active one is the newest, and between append and sync it ends with the point
  of the write, which nobody was told is stored (`WriterPlaced`). `Ordered`: the
  points on disk rise from file to file, and what a run handed over comes before
  what its drain has yet to read (`Ahead`). `Saved`: what the drain has passed
  in its segment is handed over, jumped over or torn (`Consumed`), so that
  deleting the file loses nothing; a kill only takes a point that was not
  acknowledged. `Counted`: the total and the record about to be synced are never
  more than the size of the listed segments and of what pruning could not
  size (`unstated`), and exactly the first if no system call fails.
  `Recoverable` follows, for every set of failing system calls and any number of
  starts. `Limited` bounds each file and, with it, the listed segments
  when a new one is begun; it needs, as the run does, a healthy disk and a
  single start, because a restart lists whatever drains have left behind.
  `WalImplementsPointLog`: to the manager the files are a queue of points, for
  every set of failing system calls and any number of starts. The queue is read
  off the disk as the stored points of the listed segments in the order of their
  numbers, which by `Ordered` is the order of the files; so a segment pruned or
  handed to a drain takes a beginning of the queue away (`Placement`,
  `StepMaps`), and no file has to be concatenated. `WalLosesOnlyPruned` says that
  the queue loses nothing but what the size limit deletes, in any number of
  starts, if no append leaves half a record, no bit rots and deleted files are
  gone (`KeepsRecords`); opening, creating, syncing and closing files may fail.
  Its run has a healthy disk and one start. It adds `Healthy`: no point on disk
  has been pruned, and every record is whole except one that a kill tore, which
  is the last of a segment that is not written any more; so a drain that jumps
  over it jumps over nothing stored. The assumption is needed: behind a record
  torn in the middle of a segment, or a rotten one, the drain jumps over points
  that nothing pruned. Sizes
  are cardinalities of sets of units (`SizeIn`), whose lemmas stand for a sum
  over segments; that the segments found at a start can be listed in order is
  shown from the least number of a set (`Listing`).
- `SenderProofs`. What the platform received and what is on the wire are one row
  of batches (`Sent`). `Chained` says that their numbers rise and each begins
  behind the end of the one before; `BatchIsLast` that the open batch holds the
  last points taken; `Complete` that without a failure nothing is missing;
  `CleanStreams` that a sender without a failure has left nothing on a dead
  stream. A stream that dies cuts the row, a send extends it, and a batch lost
  before it was sent leaves a gap behind it. `ReceivedInOrder` and
  `LossesVisible` follow.
- `CloudProofs`. `CloudInv` adds to `SingleOwner` which calls may hold samples
  (`OwnersBusy`), that an answer is on its way only for what is stored
  (`AnsweringStored`), that Close's own call comes after all others
  (`CloserLast`), and where each sample is (`Accounted`). `CloserLast` is what
  makes the state after Close final: a late failure cannot put samples back,
  because Close has waited for every call that was counted.
- `ServicesProofs`. `PipeInv`: where the goroutines stand (`Stands`: the
  normalizer returns after every fan-in, a mode starts only its own goroutines,
  the bridge waits for its sends only when its input has ended and its batch is
  flushed) and the rows of readings (`Flow`). A row is what left the pipeline at
  one end, what the goroutines hold and what the channels hold, one behind the
  other: the accepted readings are the row that ends in the buffer, or in the
  bridge without one, and the buffer's are the row that ends in the cloud. A
  step moves a reading within a row, or puts one behind it. The dashboard has
  part of the buffer's row; while the tee turns to the dashboard, part of what
  came before the reading in its hand (`SeenFlow`), which is why appending that
  reading keeps the order. Its valid readings are described by their places
  (`Valid`, `Place`), so that one more reading behind or in front of a channel
  can be counted. `ReloadInv`: a subscriber is in the slot its closure
  remembers, no two share one (`SlotsHold`), and who does not have the holder's
  configuration is still to be called by a reload, or is excused (`Informed`).
  `LoopInv` and `SensorsInv`: an interval that is not the ticker's is in the
  channel, in the relay's hands or on its way, and a sensor that waits on an old channel finds it
  closed. A step of the union is a step of one part.
- `ReadingsProofs`. For the PDU adapter `PduInv`: sets of connections are
  numbered as they are made, each open one is in place, in a callback's hands or
  in Stop's, and in no two of these. For the fleet hub `FleetInv`: a scrape that has updated the registry
  is the only reason for the cache to lag (`CacheFollows`), and what lies under a
  name is of one who has it, whichever scrape stored it last. For the bridge
  `KeptInv`: each flush is the run of arrivals behind the one before, and the
  batch the run behind the last; `ShownInv`: what is shown is the last flush, or
  the one under way; `HistoryInv`: slot *k* of the ring, counted from its
  oldest, holds the point of flush *added - count + k + 1*, by the ring
  lemmas; `WatchInv`: a browser that was sent an old state is among those the broadcast
  has yet to write to. `Views` is proved for a batch of any length: the last
  point of a device is the greatest of a set of numbers, and the loops of the
  readers end there. For the score engine `ScoringInv`: the slots of a ring,
  from its oldest, hold the device's latest temperatures (`Holds`). That a hotter
  device has no lower thermal score needs the slope of the ring: when the newest
  reading rises and the older ones stay, neither the slope nor the time to the
  limit gets better (`FallingSlope`, `HotspotRises`), and each ramp, penalty and
  floor keeps the order (`RampKeeps`, `PenaltyKeeps`, `ThermalKeeps`). The
  volatility is a whole number whatever the ring holds (`SumNat`, `RootIs`,
  `VolatilityIs`), and the weighted sum, its rounding and its floor pass
  on no more than the volatility's fall weighs (`CompositeKeeps`). Sums are
  recursive functions, of which the shortest sequence without one is a
  contradiction (`PartialExists`). For the health engine `HealthInv`: the
  samples' times rise to the clock, and since a spike's start no sample is below
  the lower of the targets the device has had (`SpikeFrom`). What the scan knows
  after each sample (`Knows`: whether a spike is on, its last peak, the last
  spike that ended) is kept by the next, whether it is missing, in the run or
  below the target. `Settings` has no steps: what is proved holds of every
  combination of layers, whether or not a run enumerates it.
- `Lemmas`. Sequences that arise from others by leaving elements out (`Thins`),
  the least and the greatest element of a set of numbers (which stand for
  induction), positions on a ring without a remainder (`At`).

Some definitions are written for the proofs. In `Sender` and in `Dashboard` order
and completeness speak of the places of a sequence (a flush is a `SubSeq` of the
arrivals), in `WAL` of the numbers of points, since flattening a sequence of
batches or segments is a recursive fold. `Scoring` and `HealthWindow` sum, scan
and append with recursive functions, and a batch is put in order by naming the
ordered one.

What the attempts found: `SpikeNotOverstated` used to say that no reading since
an active spike's start was below its target, and held in the run only because no
temperature lay between the targets of the two limits. It is false when a device
learns its limit in the middle of a spike, as the code behaves (section 4). The
property now speaks of the lowest target the device has had, and compares the
start with the samples where the limit did not go down; the run has a temperature
between the targets.

Every invariant that a run checks is now the property of a theorem, and so are
the refinements of `BoundedFifo` and `PointLog`, from which `BufferManager` is
composed, and the order and loss properties of `BufferManager`, `Sender` and
`Cloud`.

Only model-checked: what must eventually happen (`DrainEnds`, `Delivery`,
`ShutdownCompletes`, `Progress`, `CloseComplete`, `Shutdown`, `CatchesUp`,
`DownPeerShown`). These rest on fairness, whose proofs need ENABLED, which is out
of the prover's reach. Of the operators, the other panels of `HealthWindow`
(headroom, stability, performance per watt) have no property and no proof.

## 6. Not modelled

- Network and device input: the SNMP, Modbus and sensor pollers, OID maps, the
  collectors and parsers of the poll-loop adapters, the stale detector. Each is
  one request and its decoding in the goroutine of a loop that is modelled; what
  it returns is a reading or an error.
- Formatting: protobuf and JSON records, the lines of stdout, the labels of the
  gauges, HTML. `Views` models which value they take.
- The values of a configuration that do not decide where readings go: ports,
  sizes, paths, TLS files, and the ranges Validate checks. Ports of the hub, of
  Prometheus and of the health server are not compared by the code.
- The command-line tools (login, logout, whoami, scan), which request, print and
  exit; the local sender, which writes to a stream; the process list and the
  uptime tracker of the API; the mDNS advertiser; the front end, the mock server
  and the examples. The routing and the JSON of the hub's API (`hub/api.go`), which
  shows what the modelled BuildFleetState returns.
- Floating point: averages, deviations and scores are compared as integers;
  rounding and NaN are left out.
- Counters and logs.
