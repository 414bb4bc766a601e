# CodePC Link in TLA+

CodePC Link lets a phone or laptop find a headless Linux mini-PC over Bluetooth
and read its network status: a Python service offers the status as a GATT
characteristic over BLE (the production path) and as line-delimited JSON over
RFCOMM (a prototype); two web pages read it over Web Bluetooth and Web Serial.
This directory holds models of the parts whose behaviour depends on what happens
in between — other processes, callbacks of an event loop, a Bluetooth stack that
fails or restarts, links that end, answers that come late, a network that changes
while it is read, versions that are deployed under open pages — with the TLC runs
that check them and TLAPS proofs about them.

Paths below are relative to `src/` of the repository; `codepc_link/` stands for
`src/src/codepc_link/`.

## Inventory

| Component | State it keeps | Operations | What is hard |
| --- | --- | --- | --- |
| Device identity, `codepc_link/identity.py` | one file per state directory | `load_or_create_device_id`, called by every status read of every process (BLE service, RFCOMM service, CLI) | no lock: processes share only the file; a crash, an I/O error or a power loss between two system calls |
| RFCOMM server, `codepc_link/rfcomm.py` | the table device → (socket, task), two registration flags, the release event | `accept_connection`, `disconnect_device`, `profile_released`, `_connection_done`, `start`, `stop`, `run_forever` | D-Bus methods run between the callbacks of one asyncio loop; a task is replaced before it has started or after it has ended; descriptor numbers are reused |
| RFCOMM request loop, `_serve_connection` in the same file | the buffer of one connection | receive, split, answer | bytes cut anywhere, pipelined requests, oversize lines |
| RFCOMM web client, `site/js/rfcomm.mjs` | port, read buffer, the in-flight flag | `connect`, `reconnect`, `readStatus`, `disconnect`, the `disconnect` event | the protocol numbers no request; late answers; a lost link's event comes late |
| BLE GATT server, `codepc_link/ble_gatt.py` | three registration flags, the bus | `start`, `stop`, `run_forever`, `ReadValue` | every call to BlueZ may fail; BlueZ restarts; interrupts and signals at any suspension; long reads are served by several calls |
| Pairing agent, `codepc_link/ble_agent.py` | none | accepts or rejects each pairing call | only its registration matters, which both servers' models contain |
| BLE web client, `site/js/bluetooth.mjs`, `app.mjs` | device, handles, busy flag, buttons | connect, read, disconnect events | awaits of one action interleave with events and with other actions |
| Application shell, `site/sw.js`, `app.mjs:340-367` | one cache per version | install, activate, fetch, update | several versions, several pages, activation under open pages |
| Management core, `codepc_link/core.py` | none | `collect_status`, the two characteristic documents | sources fail independently |
| Network status, `codepc_link/network.py` | the devices read so far, the errors | `collect_network_status`, `_read_device` | some twenty D-Bus calls, between which devices change, come and go; failures are swallowed or reported |
| Diagnostics, `codepc_link/diagnostics.py` | none | `collect_diagnostics` for `codepc-link doctor` | one command after the other on a host that lacks some of them and may change in between; adapters are named, listed and asked of in different orders |
| Advertisement probe, `codepc_link/ble_probe.py` | the `registered` local | `advertise_for_test` | Ctrl-C between a call and its answer |
| Cockpit targets, `site/js/protocol.mjs` | none | validation and URL building | pure functions |
| CLI parsing, packaging | none | | pure I/O |

How they interact: a page sends a request over its link (GATT read or RFCOMM
line); the server calls `collect_status`, which reads NetworkManager, systemd and
the identity file, and answers on the same link. BlueZ calls the RFCOMM server
(`NewConnection`, `RequestDisconnection`, `Release`) and is called by both servers
to register and unregister. The processes share nothing but the identity file and
BlueZ.

What makes each part correct:

* identity — one identifier per state directory, chosen once, never changed, the
  same in every process;
* RFCOMM connections — one live connection per device, every open socket in the
  table, every dropped connection really ends, no late callback of an old
  connection touches a new one;
* registrations — the flags never lag behind what BlueZ holds, whatever fails;
  nothing discoverable without the pairing agent; a stop leaves nothing behind;
* request loop — the replies depend on the bytes and not on how they were cut;
  bounded memory; every line is answered;
* RFCOMM web client — a reported status belongs to the request it is reported for;
  no read hangs;
* status documents — a quiet read shows the network as it is; what a document claims
  of an interface was so while it was collected; nothing managed is missing without
  an error; a long read ends;
* diagnostics — the doctor blocks exactly what cannot work as far as the host's
  tools show it, and does not pass an adapter that the advertise-test then fails on;
  the test leaves nothing advertised;
* application shell — pages load offline once there is a worker, run the scripts of
  their worker, and never mix versions behind the user's back;
* BLE web client — the page says "Connected to X" only when X is linked and its
  status is the one shown; the client is connected altogether or not at all.

## Modules

| Module | Models | Abstract specification |
| --- | --- | --- |
| `DeviceIdentity` | what `identity.py` promises | — |
| `IdentityFile` | `load_or_create_device_id`, system call by system call | implements `DeviceIdentity` (`WriteOnce`) |
| `RfcommServer` | connection table, tasks, event loop, start and stop of `rfcomm.py` | — |
| `LineServer` | what one RFCOMM connection promises, without chunks | — |
| `RfcommStream` | `_serve_connection` of one connection | implements `LineServer` (`Framing`) |
| `RfcommClient` | `rfcomm.mjs` with a server that answers in order | — |
| `BluetoothClient` | `bluetooth.mjs` and the actions of `app.mjs` | — |
| `RegistrationStack` | registrations made in one order, undone in reverse | — |
| `GattServer` | life cycle of `ble_gatt.py` | implements `RegistrationStack` (`Layered`) |
| `NetworkManager` (external) | devices, default route, connectivity, cockpit as D-Bus shows them | — |
| `NetworkCollector` | `network.py`, call by call | — |
| `StatusRead` | `core.py`, `protocol.py`, `ReadValue` and `_run_status` over `NetworkCollector` | — |
| `BluetoothHost` (external) | tools, controllers, rfkill, bluetoothd | — |
| `Doctor` | `diagnostics.py`, probe by probe | — |
| `Feasibility` | `ble_probe.py` and its command, after `Doctor` | — |
| `ServiceWorker` | `sw.js` and `registerServiceWorker` of `app.mjs` | — |
| `MC…` | the fault sets and symmetries of the runs | |
| `…Proofs` | the theorems; `WebClientProofs` has those of both clients | |

A definition whose comment begins with "Mutant" is a plausible bug of the code
and is part of no specification; each property of a passing run is violated when
the mutant named in `PROJECT.json` takes the place of the definition it mutates.

### IdentityFile

`file` is what `read_text` would find: nothing, a text that is no UUID (a freshly
created file), or an identifier. `pc` and `value` are a process's place in the
function and its local variable; `reported` is what its last `collect_status`
published as `device.id`. One action per system call: `Read`, `ReadMissing`
(`FileNotFoundError`, then `uuid4`), `Create` (`O_EXCL`), `CreateExists`
(`FileExistsError`) and `Reread`, `Write` (the flush), `Fsync`, `Unlink`. Faults:
errors of each of these calls, a kill at any point, a power loss, after which
content that was not synced is there, blank or gone. The directory entry of a new
file counts as synced with the file (the usual file systems do that; the code does
not sync the directory). `contentLost` is a history variable: an `fsync` failed or
a power loss took unsynced content.

### RfcommServer

Everything in `rfcomm.py` runs on one asyncio loop, so the model has the loop:
`ready` is its FIFO of callbacks (a task's next step, the removal of a reader, a
done callback), and a callback is an action that fires at the head of the queue.
D-Bus methods of the profile object run between two callbacks: `NewConnection`
(`accept_connection` as a whole: pop, close and cancel of the older connection,
new socket, new task, new entry), `BadFd` (the same with a descriptor that cannot
be used), `RequestDisconnection`, `Release`. A connection's task is `created`,
suspended in `recv`, `work` (`process_request`) or `send`, or `done`. `Cancel` does
what `Task.cancel` does: a waiting task's future is cancelled, which schedules the
removal of its reader and the task's last step; a task that never ran is ended by
its first step and does not reach its `finally`. `fd` and `watch` model descriptor
reuse: the selector of the loop knows numbers only. The main task (`main`) goes
through the calls of `start` (`boot`: bus and introspection; agent; default agent;
profile), waits for the release event, and goes through the calls of `stop`;
`reply` is BlueZ's answer to the call under way, so that everything else can
happen between the call, the answer and the resumption. `Interrupt` is a
KeyboardInterrupt at a suspension of `start` or `stop` (no rollback: `CancelledError`
is no `Exception`), `StopInterrupted` one in the wait of `run_forever`.

### LineServer and RfcommStream

A byte is a newline, a blank, or a symbol that stands for the text of one whole
valid request; a line is a valid request when it holds that symbol once among
blanks, which keeps "empty", "valid", "invalid" and "too long" apart. `Recv` takes
any chunk up to `Chunk`, including one that ends inside a line; `Split` is one
round of the inner loop with its `strip`. Two history variables hold all bytes
read and all replies written; `LineServer` says what the second must be, given the
first: `ToAnswer` is the set of newlines that end a line to answer, and the next
reply answers the one with as many before it as there are replies.

### RfcommClient

A port, its link, and the server's end of the link. Requests are numbered for the
sake of the properties only: the protocol has no numbers, and no decision of the
model looks at them. A response travels as two pieces, so a read may see half of
it. `readStatus` is idle, in `writer.write`, or in `readLine`; every failing path
goes through its `catch` clause (`Abandon`), which empties the read buffer and
cancels the reader; the browser may drop any part of what had arrived. `Connect`
keeps the read buffer, as `connect()` does for the same port.

### BluetoothClient

The page's actions (choose a device, connect to a remembered one, reconnect,
refresh) run from one `await` to the next: `awaiting` says what an action awaits, `arg`
which device its GATT operations are on, `alive` whether the link they were
started on still stands. `server`, `service` and `chars` are the client's handles;
a handle whose link has ended without the client listening is `Stale`. `busy` and
`banner` are the page's flag and its connection status. `Disconnected` is the
browser's event, which may come at any await; `ConnectFails` is the catch clause
of `connect()`, `ActionFails` everything that fails outside of it: the chooser,
and the first read, since `connect()` returns the promise of `readStatus()`
without awaiting it. `offered` is what the buttons of the current device offer since
the last `updateControls`; a button that is out of date can be pressed
(`RefreshRefused`, the second case of `DisconnectCurrent`). The buttons of remembered
devices are never disabled (`app.mjs:268-272`), so `ConnectRemembered` has no guard on
`busy`, and any action may overlap another. `tangled` is a history variable: a connect
sets it when another action is running, or when the flag was cleared under it, and a
connect that starts alone resets it. Where a name
would be that of something in `RfcommClient`, it is another (`PageSpec`, `ConnectTo`,
`awaiting`), so that one module can reason about both clients.

### GattServer

`main` and `part` say which call of `start` or `stop` is under way; `flags` are
the three registration flags; `bluez` what BlueZ holds; `leaked` (what BlueZ
refused to unregister) and `restarted` are history. The calls of `start` fail one
by one and are rolled back, BlueZ restarts without notice, a KeyboardInterrupt
comes at any suspension, SIGTERM ends the process, and BlueZ drops everything when
our bus name vanishes.

### NetworkManager, NetworkCollector and StatusRead

`StatusRead` composes the three: a reading (`reader`: one of the characteristics, or
the whole document of `codepc-link status`) calls `collect_status` (`Begin`: the
identifier, or an error), whose collector makes one call after the other
(`at` is the call under way, `left` the paths still to read, `raw` what `_read_device`
has of the current device), and ends in `ReadValue` or `RunStatus`. `NetworkManager`
changes between any two calls: devices appear, vanish, lose their carrier, activate
with new objects; the default route, the connectivity and cockpit change. A call of
`_get_all` is the introspection and the read; it fails when its object is gone, and
may fail anyway (`MaxFailures`). `DeviceUnread` is the inner except clause,
`OptionalUnread` the empty dictionary of `_optional_get_all`, `Unavailable` the outer
except clause. A device's addresses are one number, the object they were read from, 0
for none, so that "the address it has" and "the address it had" differ. Documents are
records; `Size` counts their errors and interfaces, since the size matters only
relative to `MaxBytes` and to the length of a part. `Receive` is the central: a full
part is followed by a read at the next offset, and each read collects anew, as the
code does; `torn` says that the bytes it has are not those of one document. `history`
holds the hosts since the collection began, for the properties.

### Doctor and Feasibility

`BluetoothHost` is the environment: any subset of the tools (`sysfs` among them), any
controllers in the kernel, blocked or not, switched on or off, `bluetoothd` running or
not. `Place` is the order of the adapters' names as text, in which `diagnostics.py:79`
sorts them (`First`); `listed` is the controller `btmgmt` lists first, which may be
any. `Doctor` runs the probes of `collect_diagnostics` in the order of the code;
`Adapter0` is the adapter it asks busctl about, `BtmgmtInfo` takes the settings of the
first controller listed; `verdict` is the exit status. `Feasibility` continues with
`advertise-test` on `target`, the value of `--adapter`: any adapter, or the default
(`cli.py:156`), whatever the doctor looked at. `probe` is the suspension of
`advertise_for_test`, `registered` its local. BlueZ may refuse to register on an
adapter that is switched off, or not. The host changes and calls fail at any
moment, `MaxUpsets` times in all; Ctrl-C comes at any suspension. Informational probes
(versions of other software, states of services, the operating system) do not enter
the result and are left out.

### ServiceWorker

`server` is the deployed version; a worker of version v is the `sw.js` of v with its
`CACHE_NAME`. The shell is two files, the HTML and the scripts; a file's content is
the version it was fetched from. `installing` fills a cache file by file, `waiting`
and `active` are the browser's slots, `caches` the caches in the order of creation,
since `caches.match` searches them all in that order. A page is loading (HTML under
way, then scripts), loaded, listening (after `register()`), reloading, failed or
closed; `worker` is its controller, `under` the controller it was loaded under.
`Activate` deletes the other caches, claims the pages and makes listening pages reload.

## Runs

| Run | Instance | Shows |
| --- | --- | --- |
| `identity` | 3 processes, 2 identifiers, every fault | `Agreement`, and that the file implements `DeviceIdentity` (`WriteOnce`) |
| `identity_killed` (violation) | 2 processes, kills, fairness | `EventuallyAvailable` fails: see findings |
| `status_read` | 3 devices (wired, wireless, unmanaged), 1 change, 1 failure, parts of 2 of 3 bytes | `QuietReadIsSnapshot`, `ClaimsHeld`, `MissingIsReported`, `LongReadBounded` |
| `status_torn` (violation) | 1 device, 1 change, parts of 1 byte | `OneDocument` fails: see findings |
| `rfcomm_server` | 2 devices, 3 connections, 3 descriptors, pairing agent, every fault but failing unregister calls | the table and the selector stay consistent; `EntryLeavesWithItsConnection`; `ConnectableOnlyWithAgent`; `StoppedUnregistered` |
| `rfcomm_ends` | 2 devices, 2 connections, 2 descriptors, no agent, every fault, fairness | `CancelledEnds`, `ReleaseEnds` |
| `rfcomm_stream` | requests of 2 bytes, chunks of 3, streams of 7, fairness | `BufferBounded`, refinement of `LineServer`, `EveryLineAnswered` |
| `rfcomm_client` | 5 requests, 3 links, fairness | `StatusesInOrder`, `LagWithinFailures`, `ReadsSettle` |
| `bluetooth` | 3 devices, 3 actions that may overlap | `SettledBanner`, `NoHalfConnection` |
| `gatt_server` | pairing agent, every fault, fairness | `NothingForgotten`, `Layered`, `Settles` |
| `feasibility` | adapters hci2 (the default) and hci10 of 2 kinds, any of 5 tools, 1 change or failure | `QuietVerdict`, `PassMeansAdvertisable`, `StoppedIsSilent` |
| `service_worker` | 4 versions, 2 pages | `OfflineWorks`, `ScriptsOfItsWorker`, `MixedOnlyInTransit` |

Why the bounds are enough to be interesting. Three processes: one creates, one
loses the race, one comes later. Three connections on two devices: a replacement
of a replacement while another device is served; with three descriptors every
number can be reused while its old user is still being cancelled. Requests of two
bytes and chunks of three: a chunk holds several lines, a whole line and a part, or
the end of an oversize line; `Chunk <= MaxRequest + 1` is the relation of the real
constants (1024 and 4096). Five requests and three links: a read that waits behind two abandoned ones,
two reconnects, and a read after each. Three devices: a left one whose link is
still up, the one left before it, and the one being connected; three actions: two that
overlap, and one that starts when the first of them has cleared the flag. `GattServer` is finite without a bound.
Three network devices: the two types with reads of their own, and one that is shown
only for its address; one change at any of some fifteen calls puts two calls of one
device, the calls of two devices, or two parts of a read on its two sides, and one
failure goes with it. `MCStatusRead` restricts the initial states, not the steps:
cockpit runs at first, and there is full connectivity only with a default connection.
Parts of two bytes in documents of one to three: an answer that is a full part to
its last byte, a document that grows over the limit, one that shrinks under the
offset. Two adapters: the first by name need not be the first by number or for `btmgmt`, nor
the first after a change, nor the default. Four versions: a
worker is installed while a waiting one takes over, and a next one follows; both
exceptions of its properties occur, an activation during an install and a page with
HTML older than its scripts.
CHECK_DEADLOCK is off where the program ends (`exited`, `closed`, `over`) or where a
bound is exhausted; it is on for `IdentityFile`, whose processes can always call
again, for `StatusRead`, where only a reading that is over may stop, and for
`BluetoothClient` and `ServiceWorker`, where the user can always go on.
In `rfcomm_server` unregister calls succeed because the code clears its flags
whatever BlueZ answers, so that `StoppedUnregistered` is only meant for stops that
BlueZ did not reject; `rfcomm_ends` has the rejections.

### Fairness

* `IdentityFile`: a process inside the function keeps running; nobody is obliged
  to call it. `EventuallyAvailable` asks only about processes that keep calling, and
  only when the kills come to an end.
* `RfcommServer`: the loop runs its ready callbacks (asyncio runs the whole queue
  each round), the main task resumes when its call is answered, and BlueZ or the
  bus answers each call (an error when the peer is gone). Nothing is assumed of
  devices, of data, or of the time a status takes.
* `RfcommStream`: the task resumes after each suspension except `sock_recv`, which
  waits for the peer.
* `RfcommClient`: `writer.write` settles, and the ten-second response timer fires.
  Neither server nor link makes progress by assumption. (`writer.write` has no
  timer of its own; a transport that never settles a write would hang the read.)
* `GattServer`: BlueZ or the bus answers each call, the main task resumes, and the bus
  tells BlueZ that a name is gone.
* `StatusRead`, `Feasibility`, `ServiceWorker`: none; their properties are safety. The
  program's D-Bus calls have no time limit, so nothing could be promised of a
  NetworkManager that does not answer.

## Findings

* **A long read mixes documents** (`status_torn`). BlueZ serves a long read by several
  `ReadValue` calls with rising offsets; each collects a new status and serves its
  bytes from the offset on (`ble_gatt.py:131-152`). When the network changes between
  two parts, what the central puts together is no document the server ever had.
  `docs/PROTOCOL.md:26` promises offset semantics "so clients can perform GATT long
  reads". `LongReadBounded` bounds the damage: the read ends; `QuietReadIsSnapshot`
  says that it is exact when nothing changes.
* **A kill leaves a blank file for good** (`identity_killed`). A process that dies
  between `os.open` (`identity.py:41`) and the flush (`identity.py:48`) leaves a file
  that every later call rejects and none repairs, although the docstring
  (`identity.py:28`) promises to create the identifier "atomically once". In the
  counterexample one kill comes between `Create` and `Write`, and no process is killed
  after that. With a `Create` that writes the identifier along with the file the
  property holds under the same kills.
## Observations

Seen while modelling; what no run shows is said from the code.

* The acceptance test of `docs/FEASIBILITY.md:92-95` fails on a capable host whose only
  adapter is hci1: the doctor examines the adapter whose name sorts first and passes;
  `codepc-link advertise-test` without `--adapter` uses `hci0` (`cli.py:156`) and exits
  with 2 (line 82 of the same document names that default, the steps do not). TLC shows
  it when `PassMeansAdvertisable` is stated with `target = DefaultAdapter /\ powered = present`
  in place of its last two conditions, with every tool installed and nothing changing. What does hold is the property as it is: with `--adapter` set
  to the adapter the doctor looked at, switched on, the test does not fail.
* An update may leave the application without its offline shell, although
  `docs/WEB_CLIENT.md:66` says that the shell, once cached, loads without Internet
  access. A worker that becomes active deletes every cache but its own (`sw.js:29`),
  also the one a newer worker is filling at that moment. The newer one is installed all
  the same, later becomes active, deletes the cache of its predecessor and has none
  itself: its pages fail offline until they have been loaded online again. TLC shows it
  when the exception `overlapped` is taken out of `OfflineWorks`, which says that this
  is the only way.

* Between the creation of the identity file and its flush another process reads an
  empty text and publishes `DEVICE_ID_UNAVAILABLE`, although the docstring
  (`identity.py:28`) says "atomically once". After a failed `fsync` the creator
  unlinks a file that others may have read (`Agreement` holds only without
  `contentLost`).
* A read of the RFCOMM page that timed out leaves its request with the server; the next
  `readStatus` takes that answer for its own (`rfcomm.mjs:221-229`). `LagWithinFailures`
  bounds the lag by the reads that failed since the port was opened with an empty
  buffer. `connect()` resets the read state only for another port.
* `connect()` of the BLE page takes its listener from the current device before the
  next one is connected (`bluetooth.mjs:65`); a loss in between is not marked. Choosing
  another device leaves the link of the first open, with nobody listening to it.
* Both pages leave the buttons of remembered devices enabled while an action runs, and
  the end of either action clears the common busy flag. On the BLE page two connects
  then mix their handles, and the status of one device may be shown under the name of
  the other. `SettledBanner` and `NoHalfConnection` say nothing of the page in that
  state (`tangled`); they say that nothing of it survives the next connect made alone.
* SIGTERM, which `systemctl stop` sends, has no handler, so `stop()` does not run;
  BlueZ cleans up when the bus name vanishes (`Settles`).
* A `NewConnection` that arrives while the RFCOMM `stop()` waits for BlueZ is accepted
  into a table nobody empties any more, until `asyncio.run` cancels its task.
* An interface's `internet` combines the connectivity read before the devices with the
  default route read later (`network.py:150`). Failures of the reads of addresses,
  route, carrier and access point are swallowed (`network.py:201`): what they would
  have told is missing without an error, and an unmanaged device whose addresses could
  not be read is not shown (`MissingIsReported` is about managed devices).
* `_service_active` waits for `systemctl` inside the event loop, and the D-Bus calls of
  the collector have no time limit.
* The doctor takes the settings of the first controller `btmgmt` lists
  (`diagnostics.py:92-98`) and asks busctl about the first adapter by name, hci10 before
  hci2: the two may be different adapters, so a capable host may fail and an incapable
  one pass. `QuietVerdict` says exactly which. No probe looks at an adapter's power,
  although a registration may fail for it (`docs/ADVERTISING_DEBUG.md:42`).
* After a deployment the old worker serves the new HTML with its old scripts until the
  user accepts the update: `networkFirst` for pages, `cacheFirst` for scripts. The
  converse mix, which the comment of `sw.js:18` is about, occurs only in the ways
  `MixedOnlyInTransit` names; one of them is a worker that became active while a newer
  one was being installed and deleted the newer one's cache (`sw.js:29`).

## Proofs

Each theorem is for every value of the constants that the modules' assumptions allow.

| Theorem | Says |
| --- | --- |
| `IdentityFileProofs!IdentityInvariant` | types, `SoleCreator`, `SyncedIsFinal` for any processes, identifiers and faults |
| `…!SyncedIdStays` | `SyncedIdNeverChanges` under any faults |
| `…!FileIsWriteOnce` | the refinement of `DeviceIdentity` (`WriteOnce`) under any faults |
| `…!ProcessesAgree` | `Agreement` under any faults |
| `RfcommServerProofs!TypeCorrect`, `TableIsLive`, `NoSocketIsOrphaned`, `EntriesLeaveTogether` | types and the table: `EntriesAreLive`, `NoOrphans`, `EntryLeavesWithItsConnection`, for any finite set of connections, any devices and descriptors |
| `…!WaitersAreAttended` | `Attended`: the selector and the waiting tasks agree, however descriptors are reused |
| `…!AgentGuardsTheProfile`, `StopUnregistersEverything` | `ConnectableOnlyWithAgent`, `StoppedUnregistered`, when `"stop_error" \notin Faults` |
| `RfcommStreamProofs!TypeCorrect`, `BufferIsBounded` | types and `BufferBounded` for all sizes the configuration may have |
| `…!RepliesAreThoseOfTheLines` | the refinement of `LineServer` (`Framing`) |
| `GattServerProofs!TypeCorrect`, `FlagsAccountForBluez`, `StopReleasesEverything` | types, and the flags account for what BlueZ holds (`NothingForgotten`) |
| `…!RegistrationsAreLayered` | the refinement of `RegistrationStack` (`Layered`), until BlueZ restarts or refuses to unregister |
| `WebClientProofs!TypeCorrect` | types of the Web Serial client, for any number of requests and links |
| `…!NewerEachTime`, `AsOldAsFailures` | `StatusesInOrder`, `LagWithinFailures` likewise |
| `…!PageTypeCorrect` | `PageTypeOK`, types of the BLE client |
| `…!BannerTellsTheTruth`, `ConnectsAltogetherOrNotAtAll` | `SettledBanner`, `NoHalfConnection`, for any devices and any overlapping actions |
| `StatusReadProofs!TypeCorrect` | types of network, collector and reading |
| `…!QuietReadsAreExact` | `QuietReadIsSnapshot` for any network |
| `…!ClaimsWereSo` | `ClaimsHeld` for any devices, changes and failures |
| `…!MissingDevicesAreReported`, `LongReadsAreBounded` | `MissingIsReported`, `LongReadBounded` likewise |
| `FeasibilityProofs!TypeCorrect`, `VerdictIsRight`, `PassIsKept`, `ProbeIsSilentAtTheEnd` | types, `QuietVerdict`, `PassMeansAdvertisable`, `StoppedIsSilent` on any host, for any names of adapters and any order of `btmgmt` |
| `ServiceWorkerProofs!TypeCorrect`, `PagesLoadOffline`, `PagesRunTheirWorkersScripts`, `MixedShellsAreExcused` | types, `OfflineWorks`, `ScriptsOfItsWorker`, `MixedOnlyInTransit` for any number of versions and pages |

That hypothesis is that of the run: the code clears its flags whatever BlueZ
answers to an unregister call, so what it promises of a stop it promises for a BlueZ
that does not refuse one. Every other theorem is under every fault its module has.

### Arguments

*Identity*: `TypeOK /\ SoleCreator /\ SyncedIsFinal` is inductive; the heart is that
`O_EXCL` lets a process into write / fsync / unlink only when the path is free, and
only the process in there can free it. The refinement needs the same invariant:
`Write` finds no identifier, `Unlink` finds nothing synced. Agreement adds
`ReportedIsFile`: until content is lost, what anybody reported is in the file, and a
file about to be unlinked never held an identifier.

*Connections*: `EntriesAreLive`, `NoOrphans` and the entry half of the table are not
inductive, because a connection that has ended is still in the table while its done
callback is queued. The strengthening says that a done callback is queued only for a
task that has ended (`DoneIsDone`), that device, descriptor, socket and task are
acquired together and an entry is under its own device (`Accepted`), and that a task
that has ended or was cancelled has no open socket until the loop is torn down
(`OverIsClosed`). `Attended` needs the queue of the loop: a task is woken once and
its reader is removed before it is (`Wakes`), a number that is used again is still
watched only for a closed socket, whose removal is queued ahead of the new user
(`Numbered`, `Watched`). The registrations are separate from the table:
`Registrations` says for every place of the main task which flags and which of
BlueZ's registrations may be set before and after the answer.

*Request loop*: between reads the buffer has no newline and at most `MaxRequest`
bytes, so one more chunk keeps it within `MaxRequest + Chunk`. That it is back under
`MaxRequest` by the next read is not inductive as it stands: `ShortTail` adds that
every newline in the buffer arrived with the last chunk, so less than a chunk follows
it, and a chunk is at most one byte longer than a request. The refinement needs
`OnTrack`: the buffer is what follows position `taken` of the stream, a position where
a line begins; the lines to answer that end up to there are as many as the replies,
but for the line in hand, which ends there. `FirstLine` then shows that cutting off
the first line of the buffer takes exactly the next line of the stream, `OneMoreLine`
that it counts unless it is blank, and `LaterBytes` that a chunk changes no earlier
line: so `Recv` maps to `Receive`, `Send` to `Answer`, `Overflow` to `Overflow`,
`Lost` to `Close`, and the rest to stuttering.

*GATT*: while an answer is under way the flag is one step behind, so the invariant
names that step (`Unprocessed`), says that an answered unregister call left nothing
off the record (`AnsweredIsGone`) and that `stopped` means no flags. For the refinement, `InOrder`
says exactly what BlueZ holds at every suspension, as long as it neither restarts nor
refuses to unregister: the registrations below the one under way (`Below`), with it
or without, depending on the answer.

*Web Serial client*: `InTurn` puts the pieces the page has read, those on the wire and
the requests on the server in one order, in which a tail ends its line and everything
behind it bears a later number. `Pending` bounds their numbers (`Numbers`) from below, by the status
shown and by the reads that have failed since the read state was empty at a connect:
a failing read leaves one answer behind. `OldLink` is what makes a failure on a lost
link harmless to the next one: while a read of an earlier link has not ended nothing is
under way on the new one, because `readStatus` refuses a second read. `Spent` bounds
the failures by the requests and the links. A read either waits, which moves pieces from the wire to
the buffer (`Read`), shows the first tail and keeps what is behind it (`TakeKeeps`),
or fails and keeps a suffix of the wire (`AbandonKeeps`, `Dropped`).

*BLE client*: nothing can be said of handles while actions overlap, so the invariant is
`Order`, and it is claimed only while not `tangled` (`Links`): at most one action runs,
and then the page is busy (`OneAtATime`); `Built` says of that action at every `await`
that the handles made so far are those of the device listened to, or that the link was
lost meanwhile and all are gone. A connect made alone establishes `Order` from any
state whatever (`ConnectToRestores`), every other step keeps it.

*Status*: the bound on a long read needs that what the collector gathered is finite
(`Gathered`), so that documents have a size; then an answer is at most `MaxBytes` long from offset 0, and
a part that starts at a natural offset below the limit ends below it. For the missing
devices, `Tracked` says that from the answer of `GetDevices` on, a device that stays
is in `left`, in `rawDevices` or in `unread`, and that `left` is empty at the end; the
documents keep what they are told (`StatusTells`). `CInv` relates every fact gathered
to a host of `history` (`SeenOn`) at every call of the collector; a claim of a document
is one of those facts. `QInv` says, as long as nothing changed or failed, what has been
gathered at each call of the one network there was (`AsOn`), to the end of the list of
devices, and that the parts received so far are those of that one document.

*Doctor and probe*: on a quiet host what each probe has stored is a function of the
host (`Known`), so the verdict is what the tools show. After a pass, and on the adapter that was looked at, nothing the test
asks for is refused, and it is on the air between its two calls (`Granted`). `OnAir`
names the places between BlueZ's answer to the registration and its answer to the
unregistration.

*Service worker*: `Types /\ Ages /\ Equipped /\ Pages`. `Ages` orders active, waiting
and installing worker by version; `Equipped` says that each has its cache, complete
past the install, and that the cache of the active worker is the first, which is the
one `caches.match` finds, unless a worker became active during an install
(`overlapped`); `Pages` relates a page's HTML and scripts to the worker it was loaded
under and to the one it is under now.

The assumptions are those of the modules (`IdentityAssumption`, `StreamAssumption`,
`ServerAssumption`, `GattAssumption`, `NetworkAssumption`, `CollectorAssumption`,
`ClientAssumption`, `SizeAssumption`, `HostAssumption`, `ProbeAssumption`, `PageAssumption`,
`WorkerAssumption`): the special values are no members of the data sets, the fault sets
are subsets of the fault kinds, connections are a finite set, bounds are natural
numbers, and a chunk is at most one byte longer than a request.

Only model-checked: what is under fairness (`EventuallyAvailable`, `CancelledEnds`,
`ReleaseEnds`, `EveryLineAnswered`, `ReadsSettle`, `Settles`), since liveness is out of
the prover's reach. `OneDocument` is false. The safety properties of the other
runs are all proved.

## Not modelled, and the plan

Modelled in this order, by how much of the program's promise hangs on it: identity,
RFCOMM server, request loop, web client, GATT life cycle, BLE client, status
documents, diagnostics and probe, service worker.

Left out for good: argument parsing, range checks and output of the CLI, packaging,
systemd units and icons (no state); the pairing agent's answers (each is a constant);
`protocol.mjs` (validation and URLs, character by character); the texts of JSON
documents and D-Bus signatures (abstracted to what the properties tell apart); the
order of interfaces, gateways and signal strengths; what an exception outside of the
event loop's cancellation does to a read that is cancelled; the radio, BlueZ's and
NetworkManager's internals and the browsers, which appear only as the environments
described above.
