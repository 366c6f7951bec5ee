# Formal models of go-mobile-uiautomator

TLA+ specifications, TLC model-checking runs and TLAPS proofs for
go-mobile-uiautomator, a Go client that drives Android devices over ADB and the
UIAutomator2 service. The repository has no Go tests; what is hard about it is
that user goroutines, a watcher goroutine, an ADB server, a device service that
crashes and an application under test all move at the same time, and that nearly
every request may fail, be lost or be answered late.

Line numbers below refer to `src/`. `PROJECT.json` maps every definition that
models code to the lines it stands for.

## 1. Inventory

| Part of the system | State it keeps | Operations | Modelled in |
|---|---|---|---|
| `adb/connect.go` | the package-wide dial mutex; per connection: deadlines, what it is routed to | `DialADB`, `TransportTo`, `WriteAdbCmd`, `ReadStatus`, `ReadLenFrame`, `ExecShell`, `ReadResponse`, `CreateTunnel`, `ConnectToDevice`, `PushFile`, `PushData` | `AdbClient`; pushes in `ServiceInstall`, the stream in `TrackDevices`; `ReadResponse` is not called by anything and left out |
| `adb/sync.go` | the sync connection; the remote file as it grows | `StartSync`, `SyncPushFile`, `SyncPushData`, `ReadSyncStatus` | `ServiceInstall` |
| `adb/device.go` | the events channel; two goroutines per stream | `ListDevicesRaw`, `ParseDevicesPayload`, `FindSerialByProduct`, `GetProp`, `TrackDevices`, `InstallApkOnDevice` | `AdbClient`, `TrackDevices`, `ServiceInstall` |
| `services/install_service.go` | files at fixed paths of the device | `InstallServiceJar`, `InstallServiceApk`, `fileExistsOnDevice` | `ServiceInstall` |
| `libs/device.go` service life cycle, `jsonrpc.go`, `request.go`, `errors.go` | `d.mu`, `d.processConn`; on the device: service processes | `StartUiautomator`, `StopUiautomator`, `Close`, `ResetUiautomator`, `jsonrpcCall`, `HttpRequest`, `JsonRpcCall` | `Uiautomator` |
| `libs/device.go` the rest | `windowSizeCache`, settings; on the device: orientation, screen on or off, a finger | gestures, `WindowSize`, `Unlock`, `DoubleClick`, `DumpHierarchy`, applications, files, screenshots | `DeviceClient`; `AppStart`, `AppStop`, `AppWait` in `AppSession`; calls that only pass a request on are the call of `Uiautomator` |
| `libs/watcher.go` | `wc.mu`, `started`, `stopCh`, `stopped`, `conditions`, `triggerTime`; one goroutine per `Start` | `Start`, `Stop`, `Reset`, `Remove`, `WaitStable`, `Click`/`Press`/`Call`, `runForever`, `runOnce` | `WatchContext` |
| `libs/uiobject.go` | a selector | `Wait`, `WaitGone`, `MustWait`, `Bounds`, `Center`, `Click`, `ClickGone`, gestures, text; `Child`, `Sibling`, `Instance`, `ChildByText` | `AppSession` (requests), `Selector` (deriving objects) |
| `libs/session.go` | `s.pid` | `NewSession`, `Running`, `Restart`, `Close`, `jsonrpcCall` | `AppSession` |
| `libs/input.go` | on the device: which input method is enabled and which is the default | `SetInputIME`, `waitReady`, `mustBroadcast`, `SendKeys`, `SendAction`, `ClearText` | `InputMethod` |
| `libs/selector.go` | fields, a mask, children (shared by pointer) | `Set`, `Delete`, `Clone`, `Child`, `Sibling`, `UpdateInstance`, `UpdateAtPath`, `ToMap`, `FromMap` | `Selector` |
| `libs/settings.go` | a map of typed values under a lock | `Set`, `Get*`, `operationDelay` | `DeviceClient`, without the delays |
| `libs/swipe_ext.go` | - | geometry of swipes | `DeviceClient` |
| `libs/proto.go`, `assets/`, `doc.go` files | constants, embedded files | - | not modelled: no behaviour |
| `cmd/main.go` | - | a receive loop on `TrackDevices` | the caller in `TrackDevices`; the rest prints |

### How the parts interact

* `UiObject`, `Session` and the gestures send JSON-RPC requests through
  `JsonRpcWrapper.Call`, which calls `Device.jsonrpcCall`. That one sends an HTTP
  request over a fresh ADB tunnel to port 9008 of the device and, when the service
  says that its UiAutomation is gone, stops the service, starts it and tries once
  more.
* `WatchContext` runs in a goroutine of its own, uses the same `Device` through
  `Exists`, and calls user callbacks under `wc.mu`.
* `InputMethod`, `Session` and installation work with shell commands, each on a
  connection of its own; `ExecShell` (`adb/connect.go:119`) returns without an
  error what it has read when the shell has been quiet for 3 s.
* The swipes of `SwipeExt` and `Unlock` are computed from `WindowSize`, which asks the
  device once and then returns what it has cached.
* A `UiObject` derives others from its selector by `Clone`, and from selectors that the
  service answers with by `FromMap`.
* `NewDevice` installs the jar that the service runs (`device.go:82`) before it starts
  the service.

### Behaviours that are hard, and what makes each part correct

* **Service life cycle.** A launch is waited for up to 30 s with `d.mu` held,
  while a stop polls without it. Correct means: nobody disturbs a launch that is
  being waited for; no process is left that the `Device` cannot stop; the process
  that answered "not connected" is gone before the request is sent again; one call
  is carried out once; everything returns.
* **Watcher.** Two channels per generation, closed by two different parties, and a
  `Stop` that gives up after 10 s. Correct means: no channel is closed twice, no two
  watchers click at the same time, a popup is handled, nobody waits for ever.
* **Device stream.** A producer, a closer, a bounded channel, cancellation, a
  server that vanishes. Correct means: lists in order, none lost, both goroutines
  end, connection and channel closed.
* **Installation.** Files that others see half written, connections that serve one
  command, deadlines that outlive their purpose. Correct means: no success for part
  of a file or for an installation that did not happen.
* **Text input.** Commands whose failure is ignored, broadcasts that are repeated
  when the answer is unreadable. Correct means: success implies input, and repeated
  input is possible only where an answer was lost.
* **Sessions and clicks.** A wait, a read of the bounds and a click are three
  requests; a session is stop, start and a poll for a pid. Correct means: no click
  at a place where the element never was during this click, no session on a process
  of somebody else's past, no element called gone that was there all the time.
* **Exchanges with the ADB server.** Every request dials, holding a mutex of the whole
  program, and may fail or be met with silence in each of its steps, while devices come
  and go. Correct means: no connection is left open, nobody waits for ever, a search
  names a device that fits.
* **Selectors.** Trees of pointers that are copied, extended and numbered, and updates
  that stop at the first refused field. Correct means: what is done to one object never
  shows in another, and the mask is true to the fields.
* **The screen.** It turns, is switched by others, and remembers a finger; the client
  keeps its size in two words without a lock. Correct means: swipes stay on the screen,
  `Unlock` leaves it on, a double click leaves no finger behind, as far as that can be
  had.

## 2. Modules

| Module | What it is |
|---|---|
| `RpcPromise` | abstract specification: what a caller of one JSON-RPC call may rely on |
| `Uiautomator` | service life cycle and `jsonrpcCall`; refines `RpcPromise` |
| `UiautomatorProofs` | its theorems |
| `WatchContext` | the popup watcher |
| `WatchContextProofs` | its theorems |
| `EventStream` | abstract specification: what the receiver of a device stream may rely on |
| `TrackDevices` | the stream, its two goroutines, its caller, the server; refines `EventStream` |
| `TrackDevicesProofs` | its theorems |
| `ServiceInstall` | pushes, the service jar and APK, `pm install` |
| `ServiceInstallProofs` | its theorems |
| `InputMethod` | the AdbKeyboard |
| `InputMethodProofs` | its theorems |
| `AppSession` | sessions, an application and an element that is waited for and tapped |
| `AdbClient` | the dial mutex, routing, device list, search, shell, tunnels |
| `AdbClientProofs` | its theorems |
| `SelectorValues` | abstract specification: a selector is a value |
| `Selector` | selectors on the heap and the objects derived from them; refines `SelectorValues` |
| `UiObjectProofs` | the theorems of `AppSession` and of `Selector`, the two models of `libs/uiobject.go` |
| `DeviceClient` | window size, swipes, `Unlock`, `DoubleClick`, settings |
| `DeviceClientProofs` | its theorems |
| `MCUiautomator`, `MCServiceInstall`, `MCInputMethod`, `MCAppSession` | symmetry sets for TLC |
| `MCSelector`, `MCDeviceClient` | constants and symmetry sets for TLC |

Definitions whose names end in `_Something` (`CloseConn_NoLock`, `Send_Drops`) are
faulty variants of the definition before the underscore, each the way a plausible
mistake in that code would be. No specification uses them; putting one in the place
of the original makes the property listed with it in `PROJECT.json` ("mutants")
fail, which shows that the property depends on what the code does.

### `Uiautomator` (`libs/device.go:143-287`, `jsonrpc.go`, `request.go`)

`Threads` are the goroutines that share one `*Device`. `pc[t]` follows the source:

| Label | Code | Action |
|---|---|---|
| `rpc` | first `JsonRpcCall` of `jsonrpcCall` (268) | `Rpc` |
| `stop` | the critical section of `StopUiautomator` (159-165) | `CloseConn` |
| `drain` | its poll for up to 10 s (167-174) | `Drain` |
| `start` | `d.mu.Lock()` of `StartUiautomator` (146) | `Lock` |
| `check` | `checkAlive` (150) | `Check` |
| `launch` | the shell command of `launchAndWait` (202-250) | `Launch`, `LaunchFails` |
| `ready` | `waitReady` (253-262) | `Ready`, `ReadyTimeout` |
| `retry` | the second `JsonRpcCall` (282) | `Retry` |

A launch is an `app_process` on the device, named by the operation that launched it;
`open` are the shell connections nobody has closed, `processConn` the one the
`Device` knows. `Boot`, `HangUp`, `Crash`, `Disconnect` and `RunQueued` are the
device's own steps: a process takes the port, ends because its shell was closed, ends
for another reason, loses its UiAutomation, or carries out a request whose caller has
given up. A round trip (`JsonRpcCall`) has every outcome `HttpRequest` and
`handleRpcError` can return, with the request carried out, not carried out or still
waiting in the service. Payloads, ports, logging and the contents of errors beyond
the kinds the code tells apart are left out. `executed`, `attempts`, `queued`,
`suspect` and `failed` only record history.

### `WatchContext` (`libs/watcher.go`)

Each `Start` that finds the context stopped makes a generation: a pair of channels
and a goroutine. `gen` is the generation that `wc.stopCh` and `wc.stopped` hold now,
`closed` and `ended` those whose channels are closed, `announce[g]` the channel that
the goroutine's `defer close(wc.stopped)` evaluated (the argument of a deferred call
is evaluated at once), `listen[g]` the `stopCh` its `select` reads (evaluated in every
round). `runOnce` holds `wc.mu` (`mu = g`) from `Lock` to `Miss` or `Callback`.
`Reset` and `WaitStable` call `Stop` and `Start`; `after[c]` is where they go on.
They look at `wc.started` without the lock, so that is part of their first action and
may be stale when the next one happens. Every round of `WaitStable` takes the lock: it
sees a quiet screen (`Poll`), or it is the last one before the deadline (`PollTimeout`);
the deadline is not looked at while the goroutine waits for the lock. `panicked` is a second `close` of a channel.
Callbacks that use their own context (they block for ever) are excluded.

### `TrackDevices` (`adb/device.go:235-330`)

`pc` is the producer, `closer` the goroutine that closes the connection on
cancellation, `consumer` a receive loop like that of `cmd/main.go`. The header and
payload of a frame travel as two items, so the connection can be lost between them.
`Send` is the `select` of `sendEvent`: with room in the channel and a cancelled
context it takes either case. The deferred calls run last to first: stop the closer,
close the connection, close the channel.

### `ServiceInstall` (`services/install_service.go`, `adb/sync.go`, `adb/device.go:190-225`)

`file[k]` names the run whose file is at the path of kind `k`, `written[r]` how much
of it there is: a push unlinks what is there and creates a new file, so a push that is
overtaken goes on writing a file nobody can find. `channel[i]` is what a connection
serves; only a routed one obeys a command (`Obeyed`). `late[r]` is the write deadline
of 2 s that `WriteAdbCmd` sets for `sync:` and nobody takes back. `Data` is one
64 KiB chunk; `Device.Push` (`kind` "file") may fail to read its local file.

### `InputMethod` (`libs/input.go`)

One action per shell command. Every command may fail or be quiet for 3 s; then its
effect may have happened or not, and for a broadcast it may happen later
(`Straggler`). The three commands that enable and select the AdbKeyboard ignore
their errors, so each is `Shell(effect, no effect)` with the same next label.
`mustBroadcast` is `Send` with `Again`; `SendKeys` goes on with `Hide`, which loops
three times as well and whose error is ignored.

### `AppSession` (`libs/session.go`, `libs/uiobject.go:53-416`, `libs/device.go:745-874`)

Every user has a `Session` on the same application. `NewSession` and `Restart` are
`stop`, `start`, `wait`; `Click` and `LongClick` are `look` (`MustWait`), `bounds`
(`Center`), `tap`; `ClickGone` adds `pause`; `GetText`, `SetText` and `DragTo` are
`look` and `request`, which names the element by its selector; `WaitGone` is `await`.
A request that is lost is an error, at which `ClickGone` does not look; the branches of
`Wait` that call `Exists` after an `*HTTPError` (`uiobject.go:66`, `:80`) are dead, since
nothing creates that error, and left out. The application
starts, exits, and shows, moves and removes one element at any time. A session's
`UiObject` calls with the Device's `jsonrpcCall`, so no action looks at `pid[u]`.
`base`, `unstopped`, `seen`, `absent` and `cut` (an `Exists` by which a `ClickGone` ended
has failed) record history.

### `AdbClient` (`adb/connect.go`, `adb/device.go:26-182, 336-347`)

| Label | Code | Action |
|---|---|---|
| `lock` | `mu.Lock()` of `DialADB` (`connect.go:22`) | `Lock` |
| `dial` | `d.Dial` with `mu` held (25) | `Dial` |
| `list` | the rest of `ListDevicesRaw` | `ListDevices` |
| `transport` | `TransportTo` (80-99) | `TransportTo` |
| `shell` | `ExecShell` (103-135) | `Shell` |
| `tunnel` | `tcp:<port>` of `CreateTunnel` (271-285) | `Tunnel` |

`queue[u]` are the devices still to be asked: one for a shell command or a tunnel, all
that were listed for a search without a hit among the products. `GiveUp` is the
`continue` of the search and the error return of everything else. What the parsers
return stands for the text: a device has the product, the model, neither, or is
offline. Serials are numbered in the order of the list, so a search asks the least
first. A tunnel that was handed to its caller is closed when the caller begins
something else. `had`, `stayed` and `faulted` record history.

### `Selector` (`libs/selector.go`, `libs/uiobject.go:447-533`)

`heap[n]` is a `Selector`: values of fields, the mask, the relations, and pointers to
the nodes of children and siblings. `root[h]` is the pointer that a caller's variable
or `UiObject` holds. A value is a Go type and a number; `Accepts` is `validateValue`.
One field stands for each class of `fieldDefs` (any value, bool, integer). `Clone`
copies what can be reached from a node and keeps its shape; `ChildByText` makes the
nodes of an answer, whose numbers are `float64` because they come from JSON.
`UpdateAtPath` sets some of the fields up to the first refused one, in an arbitrary
order, as Go's `range` over a map does. `ToMap` reads the tree as the service does: the
map is nested, and the model writes its entries one after the other, with the numbers of
children in place of the nested maps, so that trees of any depth are compared. An answer
of the service (`IsAnswer`) is a tree, since it is JSON, and its masks are true to its
fields, since the service is taken to be right about its own selectors.

### `DeviceClient` (`libs/device.go:326-545, 933-975`, `libs/settings.go`, `libs/swipe_ext.go`)

`WindowSize` is `size`, `read height` when the cache is filled, and `measure`, `store`,
`store width`/`store height` when it is not: an array of two words is neither read nor
written at once, and no lock is held. Then `aim` computes and `send` swipes. `Unlock` is
`look` (`Info`), `power` (`Keyevent`, which toggles), `size` and so on; `DoubleClick` is
`down`, `up`, `tap`. `Turn` and `Switch` are `SetOrientation`, `ScreenOn` and
`ScreenOff` of any program, or a hand. The product in `int(float64(w)*(1-scale)/2)` may
come out just below an integer, hence the set `Offsets`. `data` are typed settings.
Scales, settings and timeouts are counted in parts of `Unit`, ten-thousandths, so that
what `int` cuts off is there to be cut off: `GetInt` and `Millis` (the
`int(timeout * 1000)` of `Wait`) do so, and give one of the numbers `TooLarge` for what no
int can hold. A request that was given up is never carried out, or later: `late` holds
what may still come, and `Land` lets it come. An answer without `screenOn` reads as "off".
`steady`, `torn`, `sole` and `failed` record history.

## 3. Runs

| Run | What is asked | Instance |
|---|---|---|
| `uiautomator_safety` | `LaunchProtected`, `NoOrphanService`, `BrokenServiceReplaced` | 2 goroutines, 3 operations of call/start/stop, a foreign service may run; reliable link |
| `uiautomator_live` | `CallPromise` (the refinement of `RpcPromise`), `OperationReturns` | 2 goroutines, 2 operations of every kind; flaky link, slow exits, late "not connected" answers |
| `watch` | `NoDoubleClose`, `OneWatcher`, `StableIsQuiet`, `OperationReturns`, `PopupHandled` | 2 clients, one of them stops; 2 starts; checks slower than 10 s |
| `track_stream` | `StreamPromise` (the refinement of `EventStream`), `CancelEndsStream`, `LossEndsStream`, `ListsArrive` | channel of 2, 4 frames of every kind |
| `install_files` | `NoSilentPartial`, `JarUsable`, `SuccessMeansInstalled` | 2 installers, 3 operations, files of 2 chunks |
| `input_text` | `EnteredOnSuccess`, `OnceUnlessLost` | 2 users, 3 operations of SendKeys/ClearText/disable |
| `session_app` | `TapWhereSeen`, `SessionIsFresh`, `GoneIsGone` | 2 users, 3 operations of all eight kinds, 2 places |
| `selector_objects` | `WellFormed`, `Separate`, `SelectorPromise` (the refinement of `SelectorValues`) | 2 handles, 4 operations, 6 nodes, a free and an integer field; answers of one and of three nodes |
| `device_screen` | `OnScreen`, `FingerUp`, `UnlockWakes`, `RequestsInRange` | 2 users, 4 operations of all kinds, one turn, lossy link |
| `adb_client` | `NoLeak`, `FindIsRight`, `OperationReturns` | 2 users, 2 operations of all kinds, 2 serials, one change of a device, lossy link |
| `uiautomator_close` | `CloseStopsService`, violated | 1 goroutine |
| `install_slow` | `HealthyPushSucceeds`, violated | 1 installer, link without failures |

### What the passing runs show

* **A launch is protected.** A goroutine that waits for the process it launched holds
  `d.mu`; another goroutine's stop waits. Without that lock, `StopUiautomator` kills
  the process under the eyes of the one that waits for it.
* **No orphans without failures.** As long as no launch returned an error, the only
  live process with an open connection is the one `d.processConn` names. The
  qualification is real: see `uiautomator_close`.
* **The broken process is replaced.** When a call comes back from `StopUiautomator`,
  the process that answered "not connected" is dead, whatever two other stops, starts
  or retries did in between. It needs that a hung-up process exits within the 10 s of
  the poll, that the link does not make a ping fail, that no launch failed, and that
  the process is one this `Device` launched.
* **At most one execution per call** (two if the service may report a lost
  UiAutomation for a request it carried out): `jsonrpcCall` does not repeat a request
  whose answer was lost. The retry on connection errors that the comment at
  `device.go:272` announces, and that does not happen, would break this: the mutant of
  this run repeats such a request and violates `CallPromise`.
* **Channels of the watcher** are closed once, even when a `Stop` gave up and the
  context was started again while the old goroutine still ran, because
  `defer close(wc.stopped)` evaluates its argument when the goroutine starts. It holds
  as long as one goroutine does the stopping; two concurrent `Stop` calls do panic.
* **Watchers do not overlap** unless a `Stop` gave up; then the old goroutine still ends,
  unless the context is started again and it reads the new stop channel.
* **`Start`, `Stop`, `Reset` and `WaitStable` return**, each of them after it got the lock
  that `runOnce` holds during requests and callbacks.
* **Popups are handled**, across failed checks and restarts, if checks do not fail for
  ever.
* **The device stream** loses nothing before cancellation, ends with at most one error,
  and ends: on cancellation always, on a lost connection if somebody receives.
* **A push** that reports success wrote the whole file. `JarUsable` says when the file
  can be relied on: a push that broke off or that is still running leaves a file that
  the check by name accepts (`install_service.go:44`), so it needs `torn = {}` and no
  push under way.
* **`InstallServiceApk`** returns nil only if the package manager succeeded. The
  converse fails: 3 s of silence count as the end of the output, so a slow successful
  installation is reported as an error.
* **Text input** that reports success happened, even if another goroutine disables the
  keyboard in between. Double input, or input by a call that reports an error, needs a
  lost answer, and never exceeds three times, late broadcasts included.
* **A click** goes to a place where the element was since this click found it: never
  to a place from an earlier click, and nowhere if the bounds could not be read. It may
  still miss an element that moved on; no code could exclude that with three requests.
* **"Gone"** from `WaitGone` or `ClickGone` means that the element was not there at some
  moment of the call, also if requests to find, locate or tap it were lost; with one
  exception: `ClickGone` ignores the error of the `Exists` by which it ends
  (`uiobject.go:282`), and then "gone" says nothing.
* **A session's pid** is that of a process started after the operation began (or 0,
  `Restart` accepts it), unless its `am force-stop` was lost.

* **Selectors are values.** Whatever is derived, updated, numbered or decoded, every
  operation changes the map of one object only, and makes it from the maps as they were.
  It needs the depth of `Clone`: a clone that shares children with its original breaks
  both `Separate` and the refinement. The mask names the fields that are present also
  after an `UpdateAtPath` that stopped in the middle.
* **Swipes** stay on the screen as long as it has not turned since it was first measured,
  even if the size was read while another goroutine was storing it and the height was
  still 0; a swipe that was not disturbed in that way also has the right size and goes
  somewhere. After a turn the cached size is wrong for ever. The far edge (x equal to the
  width) is reached with a scale of 1.
* **A finger** is left on the screen only by a `DoubleClick` that failed, or whose first
  event was given up and came late; the next one that succeeds lifts it. `Unlock` leaves
  the screen on unless its key was lost, the answer did not say whether the screen was on,
  or somebody else switched it after `Unlock` looked; two `Unlock`s at once are such a
  case, and switch it on and off again, and so is a key that comes late.
* **Settings** of every type that `Set` accepts lead to a depth of at least 1: an `int64`,
  which no getter reads, negative values and fractions below 1 give way to the default.
  A timeout that is not positive does so as well, but one below a millisecond does not: it
  is sent as 0 ms, and `RequestsInRange` says that no other is.
* **Exchanges with the ADB server** leave no connection open except a tunnel handed to
  the caller, and return, whatever fails in whatever step. A search returns a serial
  that had the product or the model at some moment of the search, and finds a device
  that had it throughout, unless a fault was met: a list cut short by a timeout reads as
  a list of no devices, and "not found" then says nothing.

### Findings

1. `uiautomator_close`: `device.go:177` promises that `Close` stops the service; after
   a launch that timed out the next launch overwrites `d.processConn` without closing
   it, and that process can no longer be stopped.
2. `install_slow`: a push over a healthy link fails when it takes longer than 2 s,
   since the write deadline of the `sync:` command stays in force
   (`connect.go:32`; `TransportTo` takes its own back at `connect.go:97`).

Met while modelling, without a run of their own:

* `ResetUiautomator` (`device.go:184`) reports success although a service that this
  `Device` did not launch was neither stopped nor restarted: `StopUiautomator` can only
  close its own connection, and `StartUiautomator` then finds a pong.
* A `Stop` that gave up (`watcher.go:179`) leaves a goroutine that may still begin a
  callback: `runOnce` does not look at `stopCh`.
* `WaitStable` (`watcher.go:256`) looks at the time of the last trigger only; a popup
  that failed checks did not see, or that has come up since, does not keep it from
  returning nil.
* On cancellation of `TrackDevices` the final `ctx.Err()` event is sent or not by
  chance, also when the channel has room (`adb/device.go:243`), and an end of file in
  the middle of a frame ends the stream without an error event
  (`adb/device.go:322`).
* `device.go:272` says that a connection error restarts the service; `jsonrpcCall` asks
  for `*HTTPError`, which nothing creates, so such a call ends after one round trip.
* `session.go:9` says that a `Session` checks before every JSON-RPC call whether the
  application runs; `Session.jsonrpcCall` is never called, since the embedded `Device`
  made its wrapper with its own method (`device.go:77`).
* `FromMap` does not restore what `ToMap` made, unless it went through JSON:
  `[]string` and `[]map[string]interface{}` are not the `[]interface{}` it looks for, so
  the children are lost without an error (`selector.go:254`, `:264`). Through JSON an
  `index` or `instance` is a `float64`, which `validateValue` refuses: `ChildByText`
  returns an error when the answer has one of them.
* `Settings.Set` accepts an `int64` that `GetInt` and `GetFloat64` read as 0, and
  anything for `operation_delay` and `operation_delay_methods`, whose getters then read
  nothing (`settings.go:121-138`).
* A positive `wait_timeout` or argument of less than a millisecond makes `Wait` ask the
  device for 0 ms (`uiobject.go:63`, `:78`): the test for a positive number comes before
  the conversion. A number that no int can hold, and NaN, which the test lets through,
  become an int that depends on the processor.
* A swipe of scale 1 begins or ends at x equal to the width; `UiSwipe` takes care to stay
  one below (`uiobject.go:394`).
* `FindSerialByProduct` asks the devices for their model also when the list has product
  fields and none of them fits; the comment at `adb/device.go:146` says only when it has
  none.
* In `ReadResponse` the length of a message is first read as little-endian, which
  succeeds for every ASCII length, so the fallback for ASCII is never reached
  (`connect.go:167-183`).
* A header such as `-001` would parse as a negative length and `make` would panic
  (`adb/device.go:316`); no ADB server sends one.
* A `Start` during the wait of a `Stop` finds `started` true and does nothing; the `Stop`
  then leaves the context stopped.
* `rm -f` after `pm install` (`adb/device.go:218`) goes to a connection that is used
  up; the temporary APK stays on the device.

## 4. Bounds

* `MaxOps`, `MaxRuns`, `MaxStarts`: operations in a behaviour. The code keeps no counter
  that grows with them; what an operation can meet is the leftover of earlier ones.
  Three operations of two goroutines give a leftover (a process, a goroutine of an old
  generation, a half-written file, a late broadcast), an operation that meets it and one
  that interferes. Liveness is checked with two operations or starts, since every
  operation contends with every other label of one more; `watch` and `adb_client` check
  safety with the same two.
* Two goroutines: all locks are mutual exclusion of one holder against others, and no
  property relates three. The theorems of section 6 lift this bound for `Uiautomator`,
  `WatchContext`, `InputMethod`, `TrackDevices`, `ServiceInstall`, `AppSession`,
  `Selector`, `DeviceClient` and `AdbClient`, and with it the bounds on operations, frames,
  chunks, places, nodes, scales and devices.
* `Cap = 2` for the channel (8 in the code): empty, one more and full are what `Send`
  and `Receive` can tell apart. `MaxFrames = 4`: the channel full, one event in
  `sendEvent` and one on the wire.
* `Chunks = 2`: nothing, part, everything. `MaxPolls = 1` (10) and `MaxRetry = 1` (10):
  a poll or round that fails, and the end of the loop. `MaxTries = 3` is the code's.
* `selector_objects`: two handles show what is shared between two objects; four
  operations make an object, derive one, change one of them and change the other; six
  nodes hold two trees of three. `MaxIndex = 1` tells instances apart.
* `device_screen`: a screen of 20 by 32 and the scales 0 (which is taken for 0.9), 0.1
  and 1; four operations, so that two users can each do two; one turn, since a second one
  turns back. Settings are a fraction below a millisecond, a negative number, one larger
  than `MaxInt`, one of a type no getter reads and one of a type `Set` refuses. The module
  assumes that each scale makes swipes of two pixels at least: a shorter one may go
  nowhere, and up from the centre of an odd height it does. Scales finer than a
  ten-thousandth are not told apart.
* `adb_client`: two serials make one device to give up on and one more to ask.
* `Places = {1, 2}`: the element is where it was, elsewhere, or gone.
* Symmetry is used only in runs without liveness properties.

`CHECK_DEADLOCK FALSE` is set everywhere because the bounded number of operations ends
every behaviour; that operations do return is checked as a liveness property in the
parts that wait for each other.

## 5. Fairness

* `Uiautomator`: weak fairness for the steps that do not wait for `d.mu` (the scheduler
  runs goroutines; each request has a deadline, each poll loop a limit of 10 s or 30 s),
  strong fairness for those that do: `sync.Mutex` hands itself to a waiter of more than
  1 ms. Weak fairness for `HangUp`: the device ends a process whose shell was closed.
  Nothing is assumed of `Boot`, `Crash` or `Disconnect`.
* `WatchContext`: strong fairness of each client's and each watcher's next step (`Proceed`,
  `Run`), for the same reason: nearly all of them wait for `wc.mu`. `WaitStable` has no
  way out that does not take the lock. Strong fairness for `Quit`
  because `select` chooses uniformly among ready cases, so a tick cannot win for ever
  against a closed `stopCh`; strong fairness for `Match`, that is, checks for a popup
  that stays on the screen do not all fail: `PopupHandled` is meant with that
  assumption and would be false without it. It holds with checks that outlast `Stop`'s
  10 s (`SlowDevice`).
* `TrackDevices`: weak fairness of the producer, the closer and the receive loop (which
  may end at any time; then nothing is assumed of it). Nothing is assumed of the
  server or of cancellation.
* `AdbClient`: weak fairness of a goroutine's steps, since dials, reads and writes have
  deadlines, and strong fairness of `Lock`, as for the other mutexes. Nothing is assumed
  of the devices.

## 6. Proofs

TLAPS checks these theorems for every value of the constants allowed by the modules'
assumptions (any set of goroutines, any bound on operations, every combination of
link faults). They are found in the modules named `...Proofs`.

| Theorem | States |
|---|---|
| `UiautomatorProofs!InvariantHolds` | `Spec => []IInv` |
| `TypeCorrect`, `LaunchIsProtected`, `NoOrphans`, `BrokenIsReplaced` | `Spec => []` of the corresponding invariant |
| `CallKeepsPromise` | `Spec => CallPromise`: every step is a step of `RpcPromise` or leaves its variables alone |
| `WatchContextProofs!InvariantHolds` | `Spec => []IInv` |
| `TypeCorrect`, `ChannelsClosedOnce`, `AtMostOneWatcher` | `Spec => []` of the corresponding invariant |
| `StableOutsideCallbacks` | `Spec => StableIsQuiet`, an action property |
| `InputMethodProofs!InvariantHolds` | `Spec => []IInv` |
| `TypeCorrect`, `SuccessMeansEntered`, `EnteredOnceUnlessLost` | `Spec => []` of the corresponding invariant |
| `TrackDevicesProofs!InvariantHolds` | `Spec => []IInv` |
| `TypeCorrect` | `Spec => []TypeOK` |
| `StreamKeepsPromise` | `Spec => StreamPromise`: every step is a step of `EventStream` or leaves its variables alone |
| `ServiceInstallProofs!InvariantHolds` | `Spec => []IInv` |
| `TypeCorrect`, `NoPartialSuccess`, `JarIsUsable`, `InstalledOnSuccess` | `Spec => []` of the corresponding invariant |
| `UiObjectProofs!InvariantHolds` | `Spec => []IInv` of `AppSession` |
| `TypeCorrect`, `TapsWhereSeen`, `SessionsAreFresh`, `GoneMeansGone` | `Spec => []` of the corresponding invariant |
| `UiObjectProofs!SelectorInv` | `SelectorSpec => []SelectorIInv` |
| `SelectorsWellFormed`, `SelectorsSeparate` | `SelectorSpec => []` of the corresponding invariant |
| `SelectorsConfined` | `SelectorSpec => Confined`, an action property: what one handle can reach is untouched by operations on others |
| `SelectorsAreValues` | `SelectorSpec => SelectorPromise`: every step is a step of `SelectorValues` or leaves all values alone |
| `AdbClientProofs!InvariantHolds` | `Spec => []IInv` |
| `TypeCorrect`, `ConnectionsClosed`, `SearchIsRight` | `Spec => []` of the corresponding invariant |
| `DeviceClientProofs!InvariantHolds` | `Spec => []IInv` |
| `TypeCorrect`, `SwipesOnScreen`, `FingersUp`, `UnlocksWake`, `RequestsAreInRange` | `Spec => []` of the corresponding invariant |

**Service life cycle.** The wanted invariants are not inductive. `IInv` adds:
`TicketInv` (an operation number belongs to one goroutine, and what has no number yet
is fresh, so a process name is never used twice); `LockInv` (`d.mu` is held exactly at
`check`, `launch` and `ready`, which is why nobody else's stop can come in between);
`ProcInv` (one process serves; `processConn` is an open connection of a process that
was started); `BootInv` (without failures a process boots only while its launcher
waits, and nothing else lives then; this is what excludes orphans, since a launch
happens only after a failed ping); `DrainInv` (while a call's `StopUiautomator` polls,
the process to replace is dead or its connection closed, so the poll ends only when it
is dead); and `CallInv` (how far a call has come bounds how often it was carried out).
`CallKeepsPromise` follows from `CallInv`: a call that was carried out is at a label
from which the code does not send it again.

**Watcher.** `TicketInv`: a `Start` in progress has a generation nobody has used.
`ChannelInv`: a goroutine that runs announces its own generation, and only ended ones
have closed their channel. The heart is that a goroutine that has not yet evaluated
its `defer` is that of the current generation and the context is started: `Stop` cannot
get past its wait before. `StopInv`: while the context is started, its stop channel is
closed exactly if one `Stop` is past its close; with one stopper that `Stop` is alone.
`LockInv`: `wc.mu` is held exactly by the goroutine inside `runOnce`, from which
`StableIsQuiet` follows.

**Text input.** `OnceUnlessLost` says nothing of how many attempts an operation has
made, so it is not inductive. `IInv` adds `TicketInv` (an operation belongs to one
goroutine and has no result while it runs) and `AttemptInv`: before the first
broadcast nothing was entered; while `mustBroadcast` loops, what was entered and what
may still be carried out late together do not exceed the failed attempts, and exist
only if an answer was lost; `SendKeys` hides the keyboard only after its text was
entered. An attempt adds at most one, and a straggler was counted when its answer was
lost, so three attempts enter at most three times.

**Device stream.** `WireInv`: what is on the wire are the items of consecutive frames, up
to the last one the server has begun. `Upcoming` is the frame the client will read of
next, and `Half` says whether it has its header. `OrderInv`: what the producer holds is
the frame before `Upcoming`, and the last event of the stream is that of the frame
before it, or of an earlier one if the context is cancelled. `EventInv`: an `Err` event
is followed by the deferred calls only. A step that appends to the channel is then an
`Update` or `Err` of `EventStream`, and receiving moves an event within the stream.

**Installation.** `TicketInv`: a run belongs to one installer, so a file is written by
its creator only. `ChannelInv`: only packages get as far as `pm install`, and by the
time its output is read the connection is used up, which is why the temporary file
stays. `FileInv`: as long as no push broke off, the file of a push in progress, and the
jar somebody was told of, is at its path. `JarUsable` is not inductive and follows:
the jar is there by `FileInv`, and `NoSilentPartial` excludes that it is incomplete.
What a step does to the files and what it reports are two definitions of the proof
(`Stores`, `Reports`); each action is shown to be an instance.

**Sessions and clicks.** `AimInv`: a user who is about to read the bounds knows every
place where the element has been since it was found, which gives `TapWhereSeen`.
`FreshInv`: after a stop that was not lost, what runs was started later; a session
takes its pid from that. `AbsentInv`: while the element is not there, every user is
marked as having seen it away, so an answer "not there" proves `GoneIsGone`.
`LabelInv` and `TicketInv` tie steps to the kind of the operation and to one user.

**Exchanges with the ADB server.** `HistoryInv`: during a search what fits now has
fitted, and what has fitted all the time still fits. `QueueInv`: a search without a
fault still has such devices in its queue, and they fit by their model (else the
list would have shown the product). So an empty queue means that none stayed. `TunnelInv`
says who may keep a connection.

**The screen.** `StoreInv` and `CacheInv` say which words of the size are there and who
is about to store the missing one; `SizeInv` that every word anybody has is right as
long as the screen has not turned; `AimInv` that whoever is about to swipe has a width,
and a height unless it was disturbed. Then `OnScreen` is geometry: `OffsetBounds` and
`PathsWithin` bound the points of a swipe for every size, a missing height included, and
every scale, and tell the two ends apart if the scale covers two pixels. `LookInv` gives
`UnlockWakes`. `RequestsInRange` follows from the types of the settings, which is why
`TypeOK` says that every setting has one that `Set` accepts: `GettersInt` bounds what the
getters return, for other types 0, and `MillisRange` what the conversion to milliseconds
makes of a positive number.

**Selectors.** `WellFormed` and `Separate` are inductive together; for the proof they are
`Counted` (the handles and counters), `Orderly` (the heap: nodes have the right form,
their children are younger and are allocated, nobody is a child twice) and `Disjoint`
(no two handles reach a common node). What can be reached is the least closed set, so
the proof needs no induction over paths: that something is not reached is shown by a
closed set without it, and that everything of a clone or an answer is reached, by the
same fact about the original. Every operation on `h` is first reduced to its `Effect`:
the heap stays orderly, only nodes that `h` reaches or that were not allocated change,
and old nodes get no children but new ones and their own. From the effect alone follow
the invariant and `Confined`. For the refinement, `Map` reads any heap as `ToMap` reads
the one of the state, and one lemma per operation says what is read afterwards. The
clone of a tree is read as the tree itself because its nodes are numbered in the same
order (`RenamedFacts`, `CopiedMap`); a new child is the youngest, so it is the last
entry (`ExtendedMap`). What others reach stays the same and is not touched
(`OthersKeep`), and so are their maps (`OthersValue`).

Every `IInv` was checked with TLC before it was proved.

### What is only model-checked

Liveness and everything under fairness, which is out of this prover's reach:
`OperationReturns` of `Uiautomator`, `WatchContext` and `AdbClient`, `PopupHandled`,
`CancelEndsStream`, `LossEndsStream` and `ListsArrive`. Every invariant and every action
property that a passing run checks, and all three refinements, are proved as well.

## 7. What is not modelled

* Callbacks that use their own `WatchContext`, and the data race of `Remove` and the
  condition builders with `runOnce` (`watcher.go:277`): torn slices are below the
  grain of the model, which lets `runOnce` work on the slice it read under the lock.
* The contents of requests, answers, files and logs; of selectors all but one field of
  each class.
* The bytes of a frame: headers with a sign, commands longer than 65535 bytes
  (`connect.go:31`); `ReadResponse`, which nothing calls.
* Two variables for one selector: `UiObject.Selector()` hands out its pointer,
  `Selector.Child` returns its receiver, and `NewUiObject` may be called twice with one
  selector. `Selector` has objects with nodes of their own, as the library makes them.
* Shell commands whose output has no end: `ExecShell` renews its deadline of 3 s with
  every read (`connect.go:118-133`), so it returns only because the commands that the
  library sends are finite. `OperationReturns` of `AdbClient` is meant with that.
* Input methods that are installed and not enabled: `ime list -s` (`input.go:88`) lists
  the enabled ones, so `SetInputIME` calls a disabled AdbKeyboard not installed. In
  `InputMethod` that outcome is the one of a list that could not be read, and a list
  that was read has all, so the model can do more than the code.
* Delays around operations (`device.go:888-915`): they take time and change nothing. The
  `box` of `SwipeDirection`, which takes the caller's numbers as they are.
* Calls that pass one request or one shell command on and look at nothing: clipboard,
  toast, notifications, key events, scrolling, flinging, pinching, screenshots, file
  pulls. For retries and lost answers they are the call of `Uiautomator`.
* Two `Set`s of settings at once: a lock makes each atomic, and each operation reads one
  setting once.
* Constants, embedded assets, the download script, the printing part of `cmd`.

## 8. Plan

Done, most important behaviour first: `Uiautomator` with `RpcPromise` and its proofs,
`WatchContext` with its proofs, `TrackDevices` with `EventStream`, `ServiceInstall`,
`InputMethod` with its proofs, `AppSession`, `Selector` with `SelectorValues`,
`DeviceClient`, `AdbClient`, and proofs for `TrackDevices`, `ServiceInstall`,
`AppSession`, `DeviceClient`, `AdbClient`, and `Selector` with its refinement. Next:

1. A composition of installation and service life cycle: a launch with a jar that is
   still being written.
2. That a push over a link that does not fail returns, which needs a model of the
   device's answer to `DONE` (`sync.go:188` waits for it without a deadline).
3. Callbacks that use their own `WatchContext`.

## 9. Running the checks

    tlc -workers 2 -config uiautomator_safety.cfg MCUiautomator
    tlapm UiautomatorProofs.tla

Module and configuration of every run are listed in `PROJECT.json`. The longest passing
run takes about three minutes on two cores; each module's proofs take a few minutes.
