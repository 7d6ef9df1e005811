# Verification of Eagly

Eagly is a desktop application (Flutter, with a Rust back end for iOS) that
shows what is going on on the Android and iOS devices attached to a computer:
their logs first of all, and also their screens, files, apps, network
exchanges and terminals. This directory holds TLA+ models of its logic, the
TLC configurations that check them on small instances, and proofs about them
that the TLAPS proof system checks for every value of their constants.
`PROJECT.json` maps every definition to the lines of the source it models.

Contents: [what the system is](#1-the-system), [how it is
modelled](#2-from-dart-and-rust-to-tla), [the modules](#3-the-modules), [the
runs](#4-the-runs), [fairness](#5-fairness), [what is
proved](#6-what-is-proved), [where code and comments
disagree](#7-where-the-code-does-not-do-what-it-says), [what is
left](#8-plan).

## 1. The system

The application's logic runs on one Dart event loop. What is concurrent is what
waits: an `async` function stops at every `await`, and other handlers, timers
and stream events run before it goes on. Beneath it, for iPhones, a Rust library
runs every call of Dart's as a task of its own on a thread pool, and keeps
tasks, connections and registries of what is running between the calls. The
devices, `adb`, the iOS crate and the user are the environment; every call to them may fail, be late or never
return. Nothing but preferences is stored, so there is no recovery from a
crash of the application itself; the tools it starts do crash, and are
restarted.

| Component | State it keeps | Operations | Talks to | Must be right |
|---|---|---|---|---|
| **Live log capture** (`log_controller.dart`) | the subscription of the tab, its run state, the queue of lines to show, flush, watchdog and back-off timers, retry count, banner | start, restart, stop, pause, resume, clear, dispose; disconnect, connect; stream data, error, end; stall probe; automatic recovery | the repository's log stream, `ping`, `adb reconnect` | one stream per tab; no line lost, doubled or out of order; a lost stream is replaced or the user is told |
| **Log parsing** (`log_parsers/`) | the entry being put together, the header last flushed, two timers | a line, an error, the end, pause, resume, cancel, a tick | the tool's output, the capture | guarantees 1–4 and 6 of `docs/LOG_STREAMING.md` |
| **Log storage** (`log_buffer.dart`) | a bounded queue of entries flagged by the filter | append, set filter, trim, clear | the view | bounded; what the filter accepts goes last, the oldest first |
| **Log view and filters** (`log_controller.dart`, `pid_package_index.dart`) | filter, cached list, pid index, dirty flag, selection, search, bookmarks | append, learn, filter, select, clear, search | storage, pid cache | the cached list is what a scan would give; a selected row stays the entry picked |
| **PID cache** (`device_session_repository.dart`) | pid map, shared refresh, poll with its consumers, requested refresh and its delay | stream start, cancel and end; request; poll; dispose | `adb shell ps`, capture, view | polled exactly while needed; a pid a tab asked for gets listed |
| **Device discovery** (`devices_repository.dart`) | the device list, the reload in flight, one queued refresh, tracker, timers, marketing names, description cache | refresh (plain, forced, with spinner), reload and retries, tracker start, report and end, names, dispose | `adb devices`, `adb track-devices`, usbmuxd, its listeners | the list converges to what is attached, forgets nothing, shows a phone once |
| **Device sessions** (`device_session_manager.dart`) | sessions, tab order, dismissed tabs, selection, imported workspace | follow the list, select, home, close, reload, import, dispose | the list; owns every feature's controller | a tab per connected device; no controller outlives its tab |
| **Log and terminal tabs** (`tab_list_manager.dart` and two users) | ordered tabs, selected index | add, import, select, close, dispose | file picker, controllers | there is a tab to show, and no controller leaks |
| **Screen mirror** (`mirror_controller.dart`, `ios_mirror_session.dart`) | state, the mirror held, restart count, quality, recording, iOS generation | start, stop, retry, quality, record, screenshot; connect, disconnect, dispose; a server that exits | scrcpy, iOS capture, user notices | no mirror runs on unowned; the state is true; a stop is heeded |
| **Network inspector** (`features/network/`) | transactions, bodies cached or being fetched, endpoints, tunnels, connections | scan, attach, event, load body, clear, export, reset | inspektor servers on the device | a body belongs to its exchange; each tunnel has one owner |
| **Wireless connection** | scan results, pairing step | scan, pair by code or QR, wait for the device | `adb mdns`, `adb pair`, discovery | an answer is used only in the step that asked for it |
| **Emulator manager** | AVDs, running ones, launches | poll, start, stop, create, delete | `emulator`, `avdmanager` | a name belongs to the emulator that has it now |
| **Apps, app installation** | app list, icon queue, running actions, install batches | refresh, act, install, replace | package manager, session | folded refreshes; an app is not lost by being replaced |
| **Terminal** | command, its process, output | submit, cancel, exit, drain | `adb shell` | one command at a time; its output is complete |
| **File manager** | path stacks, listing token, transfers | list, back, forward, rename, delete, push, pull | `adb` | what is shown is the directory named |
| **Layout inspector** | helper state, capture, live mode | start, capture, live, stop | on-device helper | one helper; captures fold |
| **Crash reports** | reports, pull, search | pull, open, search | `adb`, iOS crash service | a search shows the results of its query |
| **Workspace layout** | panes and their sizes | show, hide, move, fit | preferences | panes fit |
| **iOS back end in Rust** (`src/rust/src`) | registries of streams, input sessions and forwards; their tasks and connections; the fingers held | start and stop log and screenshot streams; open, feed and stop an input session; start and stop forwards; probe, describe, install, launch, stop, clear, list, pull, download, upload | usbmuxd, lockdown, CoreDevice tunnels; Dart by sinks and results | a stop ends its own stream even if it comes first; no finger stays on the phone; a stop by port ends its own forward; errors name what is wrong |
| **Tool processes, iOS services** | sockets, child processes | one call per operation | devices | external to the models: each call has the outcomes its code can produce |
| Device home, utilities, tips, preferences, updates, telemetry, app log, palette, menus, settings, widgets, helpers, generated bindings, build | little or none | presentation, one-shot calls | | not modelled |

`DeviceSessionManager` listens to `DevicesRepository` within its notification;
a session's controllers hear connects and disconnects within the session's; a
tab's `LogController` holds the subscription of its stream, whose lines come
through parser and generator; the pid cache is shared by the tabs of a device.
The hard part is everywhere the same: a handler reads state, awaits, and goes
on over state that others changed. `PROJECT.json` lists those places as
hazards.

## 2. From Dart and Rust to TLA+

- **A step is one turn of the event loop**: a handler up to its first `await`,
  or what follows an `await` up to the next. Helpers called in between are
  operators on the state, applied in the code's order, so that a step is never
  finer than the code's. Listeners run within the notification that calls them.
- **In Rust a step goes from one `.await` to the next**, or is one critical section
  of a registry's lock. Tasks run in parallel, but share nothing outside those
  locks and channels. A `select!` that is `biased` gives its first branch
  precedence (a guard of the others); one that is not leaves the choice open. A
  task that is not polled is a step not taken; fairness says which steps must be.
- **Suspended calls are state.** `LogCapture` has a sequence of tasks, in the
  order in which they began to wait, because completed futures resume their
  awaiters in that order; `MirrorControl` has a slot per call; `PidCache`,
  `DeviceDiscovery`, `TabLists` and `DeviceSessions`, where only certain calls
  can be suspended, have a phase or a count for each.
- **Cancelling a stream is not immediate.** The log stream of an Android device
  is an `async*` generator suspended in `await for`. Cancelling its
  subscription stops delivery at once, but the cancellation completes only when
  the source yields its next line or ends, and a second `cancel` shares the
  first one's future. This is the stream status `draining`.
- **Time** is a tick where delays matter (`SessionLogs`, by `PidCache`: half a second;
  `DeviceDiscovery` and `LogParsing`: the shortest period), with timers as
  counters; a timer that is due holds time up. In `LogCapture` and
  `MirrorControl` only the order of events matters, so a timer that is armed
  may fire at any moment.
- **Data** is what the properties tell apart: a line is its position or a model
  value, a filter the set of kinds it accepts, a description of a device the
  name it is shown with.
- **History variables** (`unserved`, `unlisted`, `alive`, `owner`, `wanted`,
  `acted`, `met`, `overtaken`, `crossed`…) are marked as such and guard nothing
  but the bounds.
- **Deviations.** An operator whose comment starts with `Deviation:` is not part
  of any specification. It is a plausible mistake at the definition that
  follows it: put in that definition's place it makes TLC refute one property,
  which shows that the property depends on that piece of code.

## 3. The modules

**Logs**

- `LogCapture` (`MCLogCapture`, `LogCaptureProofs`): the live side of
  `LogController`. `tab` is the controller's fields, `stream` the generators it
  has started, `tasks` what is suspended. Actions: the user's (`Activate`,
  `StartLogcat`, `StopLogcat`, `ResumeLiveLogging`, `TogglePauseResume`,
  `ClearLogs`, `Dispose`), the session's (`Disconnect`, `Connect`), the
  streams' (`Receive`, `StreamEnds`, `CancelCompletes`), the timers'
  (`FlushTick`, `WatchdogTick`, `RecoveryTimerFires`) and the continuations
  (`TakeTurn`, `ReconnectReturns`, `PingAnswers`). `stopLogcat` is called only
  by tests; the constant `StopIsCalled` says whether it is here.
- `LogDelivery`: the abstract contract of a log stream — everything accepted is
  shown once and in order, and all of it when the tool ends.
- `LogParsing`: `parseLogLines` with either parser, chosen by `platform`. `fed`
  is what the source delivered, `held` the entry being put together, `flushed`
  the header an idle flush left behind for lines still to come, `out` the rows
  emitted. It implements `LogDelivery` under the mapping `Delivery`, which
  `LogParsingProofs` proves.
- `LogEviction`: which entries a full buffer gives up, for the two modules that
  follow. The victims are characterised (`AreVictims`); the code's loop is a
  recursive function beside it (`EvictLoop`).
- `LogBuffer` (`MCLogBuffer`, `LogStoreProofs`): the store. An entry is its
  position among all appends, so the queue is a set. `VictimsAreTheLoops` says that
  the characterisation and the loop agree.
- `LogView` (`MCLogView`, `LogStoreProofs`): the cached filtered list with its
  signature, the index of pids a tab learned over the map of its device, the dirty
  flag of the retention filter, the selection. `AfterEach` is the loop of a flush
  over the queue, `Rows` the list as the user sees it.
- `PidCache`: when the map of a device is refreshed. What a refresh lists is
  `LogView`'s business; here only when it began matters.

**Devices**

- `DeviceList`: the contract between discovery and its listeners — a device once
  listed stays listed, connected or not.
- `DeviceDiscovery` (`MCDeviceDiscovery`, `DeviceDiscoveryProofs`): the
  repository and its sources. `reload` is the reload in flight, from listing
  over the descriptions to the merge and the wait before a retry. It implements
  `DeviceList`.
- `DeviceSessions` (`DeviceSessionsProofs`): the manager over *any* `DeviceList`,
  instantiated for its first state and for each publication. Composition: what
  holds here holds over the real discovery, since that implements the list.
- `TabLists`: `TabListManager` as its users restrict it; `kind` is whose list it
  is.
- `SessionLogs` (`SessionLogsProofs`) composes `TabLists` and `PidCache`: only a tab that is alive
  streams and asks. `held` is the stream each live tab would cancel, one or none;
  a tab may have started more and forgotten them, since operations that overlap
  attach without looking (section 7), and these go on when the tab is closed.
  Closing a tab cancels what it holds, and disposing of the session disposes of
  the tabs and then of the repository.

**Mirror**

- `MirrorControl` (`MirrorControlProofs`): the controller with either kind of mirror,
  chosen by `ctl.platform`. A call's slot holds the await it stands at, the
  mirrors it has yet to see stopped, and on the iPhone whether it is still the
  `current` start, which is what `_iosGeneration` tells the code. Any call may come
  in at any await of any other. `Unguarded` names the awaits after which the code
  does not look around: a call that comes in on one marks the start there
  `overtaken`, and both `crossed` (history). A mirror is `Up` while it has what it
  opened, also when its server is gone; `Lost` are those the code is known to leave
  behind (section 7). Recordings and screenshots are left out.

**iOS back end (Rust)**

- `IosStreams`: `start_ios_syslog`,
  `start_ios_screenshot_stream` and their stops. `task` is the start call and the
  task it spawns, `registry` what is under an id — the task's token or a cancelled
  one a stop left —, `capture` and `arriving` the screenshot connections and the
  channel from them to the delivering loop.
- `IosInput`: a session's queue, its worker with what it
  believes to be `held`, the reports a touch still sends, the link, and what is
  `down` on the phone. Coordinates are left out; a frame is the fingers it presses
  and those it lifts.
- `IosForwards`: listeners on ports the host hands out again,
  the registry by port, clients from being queued to being piped.
- `IosCalls`: the 26 calls that ask the phone something, as scripts of awaits over a
  phone that changes between any two of them. Each await of a script says where its
  error goes: out of the call by `?` (`Asks`), to the closing of the tunnel
  (`Guarded`), or nowhere (`Ignored`). Whether the `tunnel` is open, closed or
  dropped follows from that. `Kinds` is what the crate reports (external),
  `FromIdevice`, `ErrorOf`, `Status` and `Outcome` what the code makes of it.
- `IosApps`: `stop_ios_app` and `clear_ios_app_data` over listings that go stale.
- `IosFiles`: the four walks over a tree that changes, from their connection on, which
  differ in what an entry that fails does to the rest. `saved` is what a pull has
  under each name: it writes every report into one directory, so the last of its
  `Namesakes` stays. `cut` are directories of the host whose listing broke off, and
  reports the host could not write.
- `IosBackend` (`MCIosBackend`, `IosBackendProofs`): all of these. The parts share no
  state on the host: every registry is a static of its own, every call has its own
  connections. The parts in `moving` are at work at once, their steps interleaved;
  the theorems are about any of them together, TLC explores one at a time
  (`MCMoving`), which is enough because no step of a part reads another's state.

## 4. The runs

Every bound is a constant named with its meaning in the module. Runs that give
`CHECK_DEADLOCK FALSE` are those where the model really stops: a budget of
commands is spent, the source is done, or the object is disposed.

| Run | Instance | What it shows |
|---|---|---|
| `capture_alone` | 3 stream slots, 2 lines, 2 retries, a queue of 2, one operation at a time (the next begins when its awaits are over); fair | Without overlap the tab owns its only stream and a running one captures or says it does not (`RunningIsServed`). A lost stream is settled (`LossIsSettled`) and queued lines are shown (`QueueIsShown`), unless an operation waits for ever for a cancelled stream to let go. |
| `capture_overlap` | 4 slots, three operations suspended at once, the 3 newest entries stored, symmetry of slots and lines | What any interleaving keeps: a step adds to what was captured and discards nothing unless it is the user's clear, a restart or the closing (`CapturedInOrder`), a paused tab is quiet, a recovery under way is never forgotten. |
| `capture_orphan` | 2 operations | *Violation*, see [section 7](#7-where-the-code-does-not-do-what-it-says). |
| `parsing` | every sequence of 5 lines and errors, both parsers, ticks, pauses, end, cancellation | Guarantees 1 and 4 of `docs/LOG_STREAMING.md` and 6 (`ParserInv`), with `HeaderAwaitsItsBody` for what must not be hurried, and 2 and 3 as the refinement of `LogDelivery`. |
| `buffer` | 2 kinds, base capacity 2, 9 appends, any filters | `SizeIsBounded`, matching entries go last, replacing a filter drops nothing, and the code's loop evicts what `AreVictims` says. |
| `view` | 2 pids, 2 packages, terms for and against one of them, base capacity 1, queue of 2, 4 arrivals, 2 changes of what is relevant | `ViewInv`: the cached list is what a scan would give, retention flags lag only while marked dirty, and a selected row stays the entry picked; `NothingShownGoesFirst`. Pids are not reused. |
| `session_logs` | 2 tabs that can stream and one more, 1 file, 2 streams, which may both be one tab's, all three kinds of list; a tick is half a second: a second between requests, three between polls | A tab remains, no controller leaks, a tab holds a running stream of its own or none, and the poll runs exactly while a stream is open, held or forgotten (`SessionLogsInv`); requests are taken up and a pid asked about is listed by a later `ps` (`RequestsAreServed`). |
| `discovery` | two worlds: an Android and an iOS device with one change, one failed listing of adb's or usbmuxd's, one end of the tracker and one refresh by the user; one phone under an address and an mDNS name, with two changes, one failure, which may be that of a description, and names that arrive at any moment | The list and the names converge, the two entries of a phone settle on one, the tracker comes back (`DiscoveryConverges`), but for a device whose description failed; a forced refresh is not lost, the spinner is honest; refinement of `DeviceList`. |
| `sessions` | 2 devices, 4 publications, 4 commands | Strip, selection and imported workspace agree (`StripInv`), sessions agree with the list, no controller leaks, a dismissed tab stays closed, the selection is the user's. |
| `mirror` | 3 mirrors, 3 calls in flight, 2 automatic restarts, both platforms, every overlap at every await | Ownership, quality and truth of the state (`MirrorInv`), stop heeded (`StopIsHeeded`), and nothing up after dispose (`DisposeEndsMirrors`): each but for the mirrors the code is known to lose. |
| `ios_backend` | two log streams or one screenshot stream with 2 captures and 4 requests; 3 frames of up to 2 fingers or one, 2 breaks of the link, a request; 3 forwards over 2 ports with 2 clients; 26 calls under 3 changes of the phone; an app with an extension and a process that is listed without its executable, and three directories; a tree two deep with two reports of one name, 3 faults | A stream can be stopped while it runs and by nothing else, and a stopped one ends with its captures (`StreamIsStoppable`, `StopEndsStream`); no finger stays down or comes back (`NoFingerIsLeft`, `NoGhostFinger`) and a session settles (`SessionSettles`); a stop by port finds its forward and closes its pipes (`ForwardIsStoppable`, `StopClosesPipes`); errors and statuses are true, and tunnels closed but by the four calls that can drop one (`AnswersAreTrue`); what is reported stopped and cleared is (`ClearedStaysClear`); a walk that succeeds is whole, with the exceptions section 7 lists (`WalkIsWhole`). |
| `ios_unavailable` | the 26 calls, 3 changes | *Violation*, see [section 7](#7-where-the-code-does-not-do-what-it-says). |

Why the bounds are enough. In `capture_*` an operation needs one slot, and three
overlapping operations already reach every pair of continuations and a third
that sees their result; attempts beyond the limit of 2 are counted the same
way. A queue of 2 distinguishes empty, partly filled and full. In `parsing`
five lines are a header, its text split by an idle flush and a blank line, and
the next header or separator: every parser state and every pair of its
transitions occurs. In `buffer` capacity 2 gives 2 + 1 and, with a filter, 4 + 1
entries; nine appends fill, overflow and refill both. `view` keeps `BaseCapacity` at 1
so that every append evicts; a third change of relevance was found to add only
states. `discovery` has one of each disturbance, because each of them can meet
every phase of a reload; two disturbances of a kind were found to add only time.
`sessions` has every id in every state, and enough events to close, reconnect and
close again; `session_logs` two streams, one that keeps the poll and one that lets
go of it, or one held and one forgotten. In `capture_overlap` three entries are the
two a step may add and one before them, so that what is lost cannot pass for what
retention drops. In `mirror` three mirrors are one that runs, one that replaces it
and one that meets the end of either, and three calls a start, the call that comes
in on it and one that sees the result.

In `ios_backend` two ids of a kind are a stream and another whose stop might be
taken for its own; two captures are one the phone serves and one it makes wait,
and four requests let the later answer arrive first. Three frames are a touch, a
switch of kind and a release, and two breaks one that is noticed by a send and
one that meets the session's end. Three forwards over two ports use a port again
while another forward runs. Three changes of the phone can undo one trouble and
bring another. Directories hold one entry each, one of which is only emptied. The
tree has the same report's name at both levels and another file below, and three
faults are enough to empty its inner directory and then keep the phone from making
it. Where the theorems of
[section 6](#6-what-is-proved) reach, these bounds do not matter.

## 5. Fairness

Liveness is claimed only under what makes the application move:

- *The event loop* runs due continuations and fires armed timers (`TakeTurn`,
  `FlushTick`, `RecoveryTimerFires`; the timers of `PidCache` and
  `DeviceDiscovery`; `CallActs` in `MirrorControl`).
- *Bounded calls return.* `ping` and `adb reconnect` have timeouts
  (`AppFairness`). `ps`, `adb devices` and `usbmuxd` listings have none: their
  return is an assumption about the environment. If a listing hangs, every later
  reload waits behind it; if a `ps` hangs, so does every later stream of the
  device.
- *Strong fairness* in `PidCache`, for timers that a busy device could disable
  again and again by filling turns; the event loop serves a due timer
  however many events there are.
- *Nothing is assumed of an Android device.* A stream that is being cancelled may
  never be left, because the device neither logs once more nor ends: the comments
  at `log_controller.dart:1276` and `:1305` describe that case. `LossIsSettled` and
  `QueueIsShown` name it as their exception (`[]Wedged`: from some point on an
  operation always waits for a cancelled stream), instead of a fairness that would
  exclude it.
- *The Rust runtime* runs every call posted and every task that can go on
  (`StreamsFairness`, `InputFairness`, `ForwardsFairness`). What is assumed of the
  outside: connecting an iPhone ends, well or badly; a tunnel gets closed; a send
  to the phone ends, or fails with the link. A screenshot asked for may never
  come, nor a log record: a stop must be heeded without them.

Nothing makes the user act, a device attach or a line arrive.

## 6. What is proved

Every safety property that a passing run checks is a theorem, for all values of
the constants that satisfy the named assumptions: any number of streams, tasks,
devices, tabs, kinds, retries, capacities, lines and files. The two contracts
(`DeviceList`, `LogDelivery`) are refined by theorem too.

| Theorem | Statement | Inductive invariant |
|---|---|---|
| `LogCaptureProofs!TypeCorrect` | the retry count and the queue stay within their limits | `IInv`: types, `PausedIsQuiet`, `StoppedIsSettled` and `RecoveryIsUnderWay` together |
| `…!PausedTabIsQuiet`, `StoppedTabIsSettled`, `RecoveryIsNeverForgotten` | a paused tab has nothing queued; a stopped one is not recovering; a recovery under way has its timer or its task | the same |
| `…!CaptureKeepsItsOrder` | `CapturedInOrder`: a step adds at most two entries, at the end of what was captured, and keeps the rest up to retention; only the user's clear, which changes nothing else, a start that ends with its marker, and the closing discard any | `QInv`: `IInv`, and a tab disposed of has nothing queued |
| `…!RunningTabIsServed` | `RunningIsServed`, while operations do not overlap (`MaxTasks = 1`) | `AInv`: `IInv` and `Alone`, what holds with no operation under way and with each |
| `LogParsingProofs!ParserIsCorrect`, `HeadersWait` | `ParserInv`; no idle tick takes a header from its body | `Inv`: what is held and what was flushed are of the header of the next line, and the timers know how long it has been silent |
| `…!ParserDelivers` | the parser refines `LogDelivery` | `DInv`: `Inv`, and what was accepted is what is shown followed by what is held (`Whole`) |
| `LogStoreProofs!BufferCorrect`, `SizeTheorem` | flags are current; at most `maxBufferedSize` entries after every call | `BufferInv /\ SizeIsBounded` |
| `…!ReflaggingTheorem`, `MatchingEntriesGoLast` | replacing a filter by another evicts nothing; what the filter accepts goes last | the same |
| `…!LoopTakesTheVictims` | the eviction loop removes the declared victims, and there are no others | the same |
| `…!ViewIsCorrect` | `ViewInv`, if no pid is reused: the list kept up is what a scan would find, flags are current or marked, a selected row is the one picked | `VInv`, see below |
| `…!ShownEntriesGoLast` | `NothingShownGoesFirst`, if no pid is reused | the same |
| `DeviceDiscoveryProofs!TypeCorrect`, `RefreshIsNotLost`, `SpinnerIsHonest` | a forced refresh waits behind the reload it met; the spinner is up exactly as long as its reload | `TypeOK /\ Requests`, which adds that only a reload with the spinner waits for a retry and has one left |
| `…!ImplementsDeviceList` | discovery refines `DeviceList` | step simulation: every step publishes or stutters |
| `DeviceSessionsProofs!ConnectedDevicesHaveTabs`, `NoControllerLeaks`, `ImportsAreShown`, `DismissedUntilReconnected` | sessions agree with the list; a controller per tab and none after; dismissed tabs return only on connection | `Inv`: the three invariants and the types they need |
| `…!TabStripIsWhole`, `SelectionStays` | `StripInv`: the strip shows every session once and the selected tab is one of them; the list moves the selection away from Home only, once | `Strip`: `Inv`, the order is the sessions', what is selected is active, imports under way have taken their command |
| `SessionLogsProofs!SessionLogsCorrect` | `SessionLogsInv`: the poll runs exactly while a stream is open, a tab remains, no controller leaks, a tab holds a running stream of its own or none | `Shared /\ Listed /\ Held`; `Counted` relates consumers, streams and poll |
| `MirrorControlProofs!MirrorIsCorrect`, `StopsAreHeeded` | `MirrorInv` and `StopIsHeeded`, for every overlap of calls | `Safe(World)`: `Base`, `Told`, `Owned` and `Room`, see below |
| `IosBackendProofs!RunningCanBeStopped` | a running stream is stopped by its own id and by nothing else | `Control /\ Shots /\ Tokens`: types, and where each entry of a registry comes from |
| `…!NoFingerStays`, `NoFingerReturns` | no finger is down after a session's end, or held once Dart has lifted it | `Phone /\ Dart /\ Chain`: what is down once the pending reports are sent is held; every touch in the queue follows the one before it |
| `…!StopFindsItsForward` | a forward's port finds that forward for as long as it runs unstopped | types, `PortsAreOwned`, `StopsInOrder` |
| `…!ErrorsNameTheirCause` | `AnswersAreTrue`: an error names a trouble the phone was in; a tunnel is closed whichever await failed, but for the calls `Dropping` names | `CallsInv`: an open tunnel has its close ahead of it in the script, and no error on the way there leaves the call; a phone's trouble is one it has met |
| `…!ClearedDataStaysCleared` | `ClearedStaysClear` | `AppsInv`: what has data is doomed or in a directory still to be listed; who runs unsignalled was launched meanwhile or not found |
| `…!WalksAreWhole` | `WalkIsWhole`, with its exceptions | `FilesInv`: an entry there throughout has been got, or one on its path still waits; each report taken has one of its name saved |
| `…!BackendKeepsItsPromises` | the seven invariants hold of `IosBackend`, whichever parts are at work at once | the conjunction of the parts' invariants: a step of one leaves the variables of the others alone |

**Why the invariants are needed.** `RecoveryIsUnderWay` is not inductive alone:
that some task settles the recovery is preserved when a task is taken off only
if that task writes the flag itself, and that a resume which waits for
`adb reconnect` has already written it is in the type of what a task may be; a
pause must find the queue empty for `PausedIsQuiet`, which depends on every
append going through the flush. The proofs of `LogCapture` and `MirrorControl`
work with predicates on the value of the state (`GoodState`, `Free`, `Safe`), so
that each helper of the code has one lemma and each action cites the helpers it
is made of. For `CapturedInOrder` the lemma of a helper says how many entries it
adds at most, and adding composes; that a loss or a resume discards nothing is then
the same lemma.

In the mirror, that the controller's fields are true of the mirror it holds depends
on which calls are under way. `Told` says what each start that may still bring its
mirror up relies on — no mirror held, the device there, the quality picked — and
that it is alone among the calls that work, unless it was crossed (`Alone`): a stop
that returns may then report what it likes, because it knows that no uncrossed
start is under way. `Owned` says who answers for each mirror; it needs `Base`,
where a call's await, the mirrors it still has to stop and their lives fit together.
`Room` says that a mirror is left for each call that will need one, so that the
`Fresh` one it takes was never used.

In the view, nothing that `ViewInv` says is inductive. What the tab knows of a
pid is its own index over the device's map, and the map changes before the tab
hears of it; `VInv` says what holds in between. `Maps`: where either says
anything of a pid, it is the package the pid runs. `Lines`: what a stored or
queued line, or the map, says of the line's pid has been learned, or is in what a
refresh has published. So when a refresh changes what is known of the pid of a
stored line, nothing was known of it before, and the filter can tell the
difference only if the mapping bears on it (`Indifferent`), which the tab will
notice as soon as it hears (`Bears`): until then nothing is claimed, and
afterwards the signature has moved on. This is where the theorem needs
`PidsAreReused = FALSE`: a pid given to another package changes what is accepted
without bearing on the filter, in the code as in the model. A selected row is its
entry's rank among the ids shown: later ids leave it (`RowsBelow`), and an
eviction drops the selection.

The size bound of `LogBuffer` needs that flags are a function of the filter, since
what an eviction leaves depends on them. In `DeviceDiscovery`,
`SpinnerFollowsReload` needs that nothing but the end of a reload clears its retry
flag. In `IosInput` neither property is inductive, because a command in the queue
was made for the fingers on the glass when it was sent and is applied to what is
held later, after others were dropped: `Chain` says that each touch leaves down
only its own fingers when applied to those of the touch before it, and
`FollowsFewer` that it still does when some of these are missing. In `IosForwards`
a port in use again must not have kept the entry of the forward before, which
depends on a listener closing only after its stop has been to the registry. In
`SessionLogs` closing a tab counts a consumer off before the stream is gone, so that
on either side only `consumers <= Cardinality(Open)` holds.

**Assumptions.** Those of the constants are named in the modules and say that null
values are not values, bounds are numbers and capacities positive; and that in
`IosApps` the directories hold all the entries there are, and in `IosFiles` that
every path begins at the root. Three theorems assume more. `RunningTabIsServed`
has `MaxTasks = 1`, since with overlapping operations TLC refutes it (section 7).
The two of `LogView` have `PidsAreReused = FALSE`. Each of these conditions is that of the
run which checks the property, and section 7 has what happens without it.

**Recursion and sequences.** The prover's induction theorems cannot be instantiated
here, but the smallest counterexample of a bounded range can be taken: what fails
at some point fails first at one (`Smallest`, from the well-foundedness of the
numbers), and the point before it leads to a contradiction. `EvictLoop`,
`AfterEach` and the ranks of the rows in `LogStoreProofs`, and the concatenation of
what was flushed in `LogParsingProofs` (`Least`), are reasoned about in this way.

**Only model-checked.** Everything with `~>` or `<>[]` and fairness, since the prover
handles neither ENABLED nor liveness: `LossIsSettled`, `QueueIsShown`,
`DiscoveryConverges`, `RequestsAreServed`, `DisposeEndsMirrors`, `StopEndsStream`,
`SessionSettles`, `StopClosesPipes`.

## 7. Where the code does not do what it says

`capture_orphan` is kept as a run. `_stopLogcatInternal` awaits the
cancellation of the tab's subscription, then clears it and attaches without
looking again. Two operations that await the same cancellation both attach: the
first one's stream is held by nobody and delivers every line a second time,
against "each live log tab owns its own stream" and "shows up exactly once".
With two operations in flight `RunningIsServed` and `BannerOrRecovery`, which
hold without overlap, fail as well.

`ios_unavailable` is the other. `IosError::UsbmuxdUnavailable` is documented as
"usbmuxd itself is unreachable" (`ios.rs:68`), but `From<IdeviceError>`
(`ios.rs:98`) turns every error of usbmuxd's into it, also the one with which a
working usbmuxd says that the phone looked up a moment ago has been unplugged.

The models exhibit further disagreements with comments, and losses that a user would
not expect. No listed run shows them; each can be seen by checking the property named
here on the instance of the run of its module, with the change given.

| Where | What is said or expected, and what happens | How to see it |
|---|---|---|
| `log_controller.dart:1391` | banner and recovery are meant to exclude each other; a disconnect during the probe of a recovery gives both | `BannerOrRecovery`, `capture_orphan` |
| `log_controller.dart:1328` | a lost stream is recovered or the banner shown ("tears down the stream … then either schedules automatic recovery or surfaces the warning banner", `:1305`); when the transport is wedged, for which the watchdog was written (`:1276`), the cancellation awaited first never completes | `LossIsSettled` without `[]Wedged`, `capture_alone` |
| `log_controller.dart:1162` | a queued line is shown; one of a forgotten stream may be queued when no flush timer runs any more | `QueueIsShown` under `FairSpec` without symmetry, `capture_orphan` |
| `log_controller.dart:1164` | recovery cycles are limited; a tool that fails at once reports its failure as an entry, which resets the count | an unbounded sequence of `StreamEnds`, recovery, `Receive` of `ToolError` |
| `log_controller.dart:987` | learning a mapping that matters rebuilds the list; a pid given to another package does not count as such | `CacheIsFresh` on `view` with `PidsAreReused = TRUE` |
| `device_session_repository.dart:996` | a minimum gap before a requested `ps`; one that ends during the delay is not seen | `SpacingIsKept` |
| `device_session_repository.dart:1001` | a refresh under way does not answer a request; one that began during the delay does | `RequestsArePending` |
| `device_session_repository.dart:202` | only the poll remains to clean up on dispose; a stream in its first refresh arms it afterwards | `DisposedIsSilent` |
| `device_session_manager.dart:102` | auto-selection is disabled by any user action; closing or reloading a tab does not | `AutoSelectIsFirst` |
| `log_session_manager.dart:57` | the first log tab is permanent; it can be closed once there is a second | `List!FirstTabIsPermanent`, `session_logs` |
| `log_controller.dart:1134` | closing a tab ends its stream; one forgotten by overlapping operations goes on, and keeps the pid poll running | `held` in `SessionLogs`: no stream outside it is cancelled by `TabCloses` |
| `devices_repository.dart:373` | a description that failed is kept like one that succeeded, under adb's own model, although `:314` promises one entry per phone: until the marketing names arrive, or for good if they have, the phone keeps that name and is listed twice | `WirelessConverges`, `NamesConverge` without `Undescribed`, `discovery` |
| `mirror_controller.dart:405` | the controller owns its mirror; one whose server exits by itself is forgotten without being stopped, and its texture, sockets and forward stay up (`scrcpy_mirror.dart:84`) | `MirrorsAreOwned` without `life = "exited"` in `Lost` |
| `mirror_controller.dart:226` | no start looks around after it took the old mirror down, nor an Android one after it connected: a stop, a disconnection or another quality that came meanwhile is ignored, and of two starts the later mirror hides the earlier | `MirrorsAreOwned` without `crossed` in `Lost`; `QualityTakesEffect` without `crossed`; `StopIsHeeded` without `overtaken` |
| `mirror_controller.dart:366` | the state is the mirror's; a stop that ends after a newer start reports `stopped` | `StateIsTrue` without `crossed` |
| `mirror_controller.dart:603` | a recording can always be stopped; of two begun at once one is forgotten | not modelled: two calls that both passed the check before either set the field |
| `ios_mirror.rs:226` | every other call closes the tunnel it opened; a screenshot whose service cannot be reached, and a stream or session that cannot be set up, drop it | `AnswersAreTrue` with fewer calls in `Dropping` |
| `ios.rs:685` | a pull flattens what it copies, on purpose; reports of one name in different directories then overwrite each other, and the answer lists their path once for each | `WalkIsWhole` with `m = n` for `FileName[m] = FileName[n]` |
| `ios.rs:871` | an upload that answers Ok is complete; an empty directory the phone could not make is missing, and so is what a listing that breaks off (`ios.rs:877`) did not give | `WalkIsWhole` without `\ Folder`, or without `cut` |
| `ios_app_control.rs:67` | every process of the app is stopped before its data is cleared; one listed without its executable is passed over | `ClearedStaysClear` without `missed` |

These exceptions are written out in the properties, which otherwise hold whatever
overlaps. `view` shows what holds on a device that does not reuse pids: that
condition is a constant of its module and not of the code.

## 8. Plan

Done, in the order of their importance to what the program is for: log capture,
parsing, storage, view, pid cache; discovery and sessions; tabs, and with the pid
cache under them; mirror; the whole of the iOS back end in Rust.

Next:

1. `NetworkTransactions`: the bounded store of exchanges and its body fetches,
   told apart by exchange only although clear, completion and reconnection each
   begin new ones; attach and detach of sources. Properties: a body shown was
   fetched after the exchange ended, a failure shown is the current
   connection's, an exchange pending across a reconnection is asked for again.
2. `InspektorWatcher`: scan generations, claims, tunnels, retries and reset; every
   tunnel is closed by whoever opened it.
3. `WirelessPairing` over `DeviceList`; `EmulatorManager`; `AppInstall` with the
   replacement of an incompatible app; `AppIcons`; `TerminalCommand`;
   `FileBrowser`; `LayoutHelper`; `CrashReports`; `WorkspaceLayout`.
4. The capture with the buffer and the parser behind it in one model, against
   an abstract log tab: what the user sees is a subsequence of what the device
   logged.
5. Proofs: the properties of the modules above as they come; of those that exist,
   that `LogCapture` keeps `CapturedInOrder` also across the parser and the buffer
   (with 4).

Not modelled in the Rust back end: how syslog records, plists, service offers and
crash report names are decoded, which is conversion without state; the geometry of
touches and the wobble by which resting fingers are pressed again; the contents of
the media offer that `InputGate::open` makes (its awaits are in `IosCalls`); and the
serialisation in `frb_generated.rs`. Nor what `idevice` does inside a call.

Not planned: the replay of the device's ring buffer on reattachment
(`adb_tool.dart:644`), which would double lines in every model by construction;
regular expressions and output formats of the tools; video decoding; widgets.
`LogController`'s search and bookmarks, saving and exporting of logs,
`parseLogRecords`, and the recordings and screenshots of a mirror are left out of the
modules that model the rest of their files.
