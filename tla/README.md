# SuperTools: verification project

SuperTools is a HarmonyOS application (ArkTS, `src/main/src/main/ets`) with the OpenHarmony device connector, hdc,
linked in as a native library (C++, `src/main/src/main/cpp`). This directory holds TLA+ models of the parts whose
correctness depends on the order of events or on bytes that have to match, the TLC runs that check them, and theorems
about them that TLAPS checks. `PROJECT.json` maps every definition to the lines it models. Paths below are relative to
`src/main/src/main`; `common/` and `host/` are below `cpp/hdctools_src/source/src`, `hdctools/` is `cpp/hdctools`.

Of hdc two copies exist. `hdctools/CMakeLists.txt` builds everything in `common/` and `host/`, except the files that
`hdctools/` overrides: `main.cpp`, `napi.cpp`, `server.cpp`, `server_for_client.cpp`, `auth.cpp`, `base.cpp`. The models
follow the files that are built, with the macros of the OHOS build (`HDC_HOST`, `HOST_OHOS`, UART and encrypted TCP on;
`HDC_VERSION_CHECK` and `HDC_CHANNEL_KEEP_ALIVE` off).

## 1. The system

### 1.1 Components

| Component | State it keeps | Hard behaviour | Module |
|---|---|---|---|
| Background task coordinator, `utils/BackgroundServiceManager.ets` | intent flags, `taskActive`, `currentMode`, the promise chain | callers change the intent while a refresh awaits the system; any call may fail half way | `BackgroundService` |
| App start and switches of the web server, `MainAbility.ets`, `HomePage.ets`, `PrivacyPage.ets`, `LocalWebPage.ets`, `WebServerUtil.start/stop` | saved preferences, flags of each page, `tcpServer`, `isRunning` | a listen that completes after its page has been left; two starts before the first listens | `AppServices`, over `BackgroundService` |
| Screen recorder, `MyAVScreenCapture.ets`, `RecordViewModel.ets`, `ScreenRecordPage.ets`, `RecordCard.ets` | capture object, file, list of recordings | a second press in the three seconds before the first take starts; late clean-ups | `Recorder` |
| Local web server, `utils/WebServerUtil.ets` | one `ConnState` per connection, rate limits, files of `wwwroot` | requests cut anywhere; a send, read or write that fails; two connections over one file | `WebRequests` |
| hdc command path, `utils/HdcService.ets`, `hdctools/napi.cpp`, `hdctools/main.cpp` | `queueTail`, `running`, `ExecState`s; `g_cmdSeq`, `g_cmdMutex`; descriptor 1; `run_<seq>` directories | a command that timed out goes on under its successors; output through a process-wide stdout | `HdcCommand` |
| hdc client and the commands of the server, `host/client.cpp`, `host/main.cpp`, `hdctools/server_for_client.cpp` | the client's channel, its retry timers; the server's side of it | a server or device that is late, absent or leaves; answers cut by the end of a read | `HdcClient` |
| hdc session tasks, `common/session.cpp`, `common/task.cpp` | `mapTask` per session, one `taskCount` for all, retry timers | several threads over one unlocked counter that wraps; callbacks into a task that is to be deleted | `HdcTaskClear` |
| hdc TCP sessions and daemon map, `common/session.cpp`, `common/tcp.cpp`, `host/host_tcp.cpp`, `hdctools/server.cpp` | `HdcSession` (references, `isDead`, `childCleared`, handles of two loops, control pipe), `mapDaemon` | two threads per session, each with its own loop; four parties may free one session | `HdcSession` |
| hdc server channels, `common/channel.cpp`, `hdctools/server_for_client.cpp` | `HdcChannel` (references, two handles, `childCleared`), `mapForward` | a channel moves from one thread's loop to another's and back while both may free it | `HdcChannel` |
| hdc packet stream, handshake, TLS, `common/session.cpp`, `common/tcp.cpp`, `common/hdc_ssl.cpp`, `hdctools/auth.cpp` | `ioBuf`, `inBIO`, `sslHandshake`, key files | packets cut anywhere, a switch to TLS in the middle, two threads that send | `HdcStream` |
| hdc serial transport, `common/uart.cpp`, `host/host_uart.cpp` | `outPkgs`, slots, timers and retries | lost and damaged packages, acknowledgements that cross, a daemon left from an earlier host | `HdcUart` |
| hdc transfers, `common/file.cpp`, `common/transfer.cpp` | contexts, descriptors, slices in flight | completions in any order, a source that shrinks, failures at every request | `HdcTransfer` |
| hdc port forwarding, `common/forward.cpp`, `common/file_descriptor.cpp` | contexts at both ends, `mapCtxPoint`, the server's list; a device's two threads | either end refuses, breaks or is removed while the other still sends; three threads over one descriptor | `HdcForward`, `HdcDevicePoint` |
| hdc application installs, `host/host_app.cpp`, `common/compress.cpp`, `entry.cpp`, `header.cpp`, `decompress.cpp` | the queue of packages, tar files | a package that vanishes; names and lengths at the edges of a header's fields | `HdcInstall`, `HdcArchive` |
| hdc encodings, `common/serial_struct*.h`, `common/tlv.cpp`, `host/host_shell_option.cpp`, splitting of command lines | none | widths, zeros, defaults, buffers that are cut, quoted words | `SerialStruct`, `HdcMessages`, `Tlv`, `HdcCommandLine`, `HdcEncodings` |
| hdc USB transport, `host/host_usb.cpp`, `common/usb.cpp` | marks of addresses, the device's map entry, two endpoints per session, `payloadSize` | an unplug at any step; what an earlier session left in the channel; a reader that only a cancelled transfer wakes | `HdcUsb` |
| floating windows, workers, circular buffer, other pages, vendored code | | | section 7 |

### 1.2 How the components interact

- The pages call `WebServerUtil`, the recorder and `HdcService` by function call on the ArkTS thread. The web server
  and the recorder report to `BackgroundServiceManager` by function call; it talks to the system by promises.
- `HdcService` calls the native library through napi. A detached thread per command runs hdc's client code, which
  connects to the hdc server in the same process over TCP. The result comes back as a threadsafe callback.
- In the hdc server the main thread owns the maps of sessions and channels. Each session has a work thread. The main
  thread sends it commands (START, STOP, ATTACH, DETACH) through a control pipe; the work thread posts ASYNC_FREE
  messages to the main loop. Both read and write the reference counts, `isDead`, `childCleared` and the daemon map.
- A session carries packets over TCP, a serial line or USB (`HdcStream`, `HdcUart`, `HdcUsb`). The first two promise an
  ordered stream (`ReliableStream`), and so does USB where memory is kind to it (section 5). `HdcTransfer`, `HdcForward` and `HdcInstall` rely on that promise. The end of a session is the end
  of its channels and its tasks. `HdcSession` has the session in full and the clear loop as one step; `HdcTaskClear` has
  that loop; `HdcChannel` and the tasks have of the session only what they see.

### 1.3 What makes each component correct

- Coordinator: no switch is lost, what it believes is what the system runs, the chain never wedges; a server that
  listens is kept alive.
- Recorder: where nothing is under way and no call has failed, no background task is wanted, nothing counts as recording
  and no file is open.
- Web server: a request within the limits has one answer, the one its text calls for, however TCP cuts it up; one beyond
  them has that answer or the refusal; an upload answered 200 is in the file.
- Command path and client: a command is resolved with its own complete output, once and always; it is run once.
- Tasks, sessions, channels: a session or channel that is deleted is not in use and is deleted once; what is asked to
  end does end, as long as the daemons take what is written to them.
- Streams: packets are handled in order, once, all of them, or the session ends.
- Transfers and forwards: what is reported complete is complete, what arrives is what was sent, and what has ended at one
  side ends at the other.
- Installs and encodings: what was packed or written is what is unpacked or read, for names that fit a header and
  arguments whose blanks are spaces.

## 2. Modules

Every module has one action per handler or step of the code, with the name of the function where it has one. A
function that runs to its end in one turn of an event loop is one action. Where it awaits, takes a lock or hands over to
another thread it is split exactly there. An operator commented "Mutant of X" is a plausible mistake in X. It is used by
no specification; replacing X by it shows that a property notices.

**`BackgroundService`**: `isServerRunning`, `isRecording`, `currentServiceInfo` are the intent; `pending` and `pc` are
`transitionQueue` and the place at which the running refresh is suspended; `osTask` and `notif` what the system really
runs and shows. Each await on the system is two steps, the system's (`OS...`, which may fail) and the continuation's.

**`AppServices`** EXTENDS it with its callers: saved preferences, the flags of the page that is shown, `starting` for
listens that are on their way. A continuation of a promise runs in the step that resolves it.

**`Recorder`**: a take is one press; `stage` is how far it has come, the other variables are the fields of the one
capture object, which takes share. `recordings` is the list, `file` the descriptor that is open.

**`WebRequests`**: `state` is the `ConnState` of a connection, `reply` the answer's two sends, `download` a suspended
`sendFileAsync`, `disk` the content of each file as the sequence of connections that wrote it. `Calls` is the answer a
request's text calls for, `Refusals` what a limit may turn it into. A head whose bytes are not UTF-8 `grows` when its text
is encoded again to find its length.

**`HdcCommand`**: `queue`, `phase`, `running`, `result` are the ArkTS side; `seq`, `nextSeq`, `worker`, `mutex`, `ret`,
`stdout`, `saved` the native side; `dir` and `out` the disk. `Callback`, `Timeout` and `cancel` race for one promise. A
worker may stop for ever after `Redirect`, as a client that follows a log does. `Crash` kills the process at any point.

**`HdcClient`**: one command from `RunClientMode` to its return. A scenario gives the command's class, when the server
and the device are there and what is answered; answers are halves that reads may cut.

**`HdcTaskClear`, `HdcSession`, `HdcChannel`**: the ways out of the three objects. `stage` is the way on the main thread,
`thread`, `hChild`, `ctrl`, `batch`, `fetch` what the work thread holds; `entry` is the daemon map with the local copies
that both threads hold between reading and writing it back; `taskCount` is a number modulo `Modulus`. A task belongs to a
channel (`channelId`), and a new one for the same channel takes the place of the one in the map, as `AdminTask` does. A
`Send` writes under the mutex of all TCP sessions (`writer`) and goes on for as long as its daemon reads nothing (`full`).

**`ReliableStream`** is the abstract specification of a transport: packages arrive in order, at most once, without a gap
unless their receiver cannot pass one on, and each arrives or its session ends. **`HdcUart`** implements it, with the
retransmissions of its one send thread; `asleep` are the work threads that sleep on the one condition variable of
`TransferSlot`, of which `Notify` wakes any one. **`HdcStream`** implements it with units of TCP and TLS records, from the first
handshake message on. Both define the mapping (`INSTANCE ReliableStream WITH ...`), and their runs check the abstract
specification's safety and its liveness as `StreamSafe` and `Delivers`. `MCHdcStream` adds `merged`: whether a read has
taken the last plain packet together with the first TLS record.

**`HdcUsb`**: the timer that finds a device (`ignore`, `delayed`, `entry`), the pool thread that empties its channel
(`cleaner`), the reader and the senders over one transfer for each direction (`usb`, `reader`, `out`), and `FreeSession`
with its timer. What follows the use of a deleted object is undefined and not followed: a thread that would use one
takes no more steps. In this repository's build libusb is a stub (section 7).

**`HdcTransfer`**: both ends of `file send` and `file recv`; `ctx` is a `CtxFile`, `io` the libuv requests under way,
`fdTable` the system's descriptors, `net` and `relay` the packets between the ends and through the server.

**`HdcForward`**: both ends of a forward; `ctx[e][c]` is a `ContextForward`, `link` the session, the server's entry in
`mapForward` beside them. **`HdcDevicePoint`**: the point that is a device node, with the loop, the reader and the writer.
A point sees of its forward the packets that come, so `MCHdcForward` runs it beside `HdcForward`.

**`HdcInstall`** EXTENDS **`HdcArchive`**: the task `HdcHostApp` with its queue, over the operators that make a tar file
of a tree and a tree of a tar file. **`HdcEncodings`** EXTENDS **`HdcMessages`** (the descriptors of `serial_struct.h` over
**`SerialStruct`**, the templates that write and read them), **`Tlv`** and **`HdcCommandLine`**: a job is written, may
be damaged, and is read. These are pure algorithms; `HdcInstall` and `HdcEncodings` give them something to work on.

`MC<Module>` modules give the constants their values. Four of them run two machines that share no variable: the
coordinator with its callers and the recorder, a forward and a device point, an installation and an encoding, a session
over TCP and a device on USB. In each
of these a behaviour belongs to one machine, so no interleaving of the two is claimed or
needed. `<Module>Proofs` modules hold the theorems; those about `HdcTaskClear` are in `HdcSessionProofs`, those about
`HdcDevicePoint` in `HdcForwardProofs`, those about `HdcUsb` in `HdcStreamProofs`.

## 3. Runs

| Run | Instance | Checked |
|---|---|---|
| `background` | 1 address, 2 starts in flight, every saved preference, 1 queued refresh; 2 takes of the recorder | `ConvergedWhenSettled`, `BeliefMatchesSystem`, `ListenerIsKeptAlive`, `QueueDrains`; `RestIsOff` |
| `hdc_command` | 2 commands, 1 kill | `OutputIsOwn`, `SettlesOnce`, `EveryCommandSettles` |
| `hdc_client` | every class of command, 4 behaviours of the device and 4 of the server, 2 answers in halves | `PrintsAll`, `RunsOnceWhereBound`, `Returns` |
| `hdc_task_clear` | 2 sessions, 4 tasks, two of them for one channel, counter modulo 5, 3 ticks | `StopEnds` |
| `hdc_session` | 2 sessions to one device, failing starts, daemons that stop reading | `TornDownIsQuiet`, `EndsOnce`, `LostIsRemoved` |
| `hdc_channel` | 1 channel, 3 writes | `TornDownIsQuiet`, `ClosedIsGone` |
| `hdc_stream` | 7 daemons: accepting, signing, with TLS, and failing at each step; on USB 2 sessions, a device plugged in twice, 2 pieces of an earlier session | `BothCanRead`, `UsbIsSound`, `StreamSafe`, `Delivers`, `FreedIsGone` |
| `hdc_uart` | 2 sessions, 5 scenarios: two packages, both ways, two sessions with two packages each, a stale daemon, a daemon that gives up | `SlotIsHeld`, `StreamSafe`, `Delivers`, `SlotComes` |
| `hdc_transfer` | 2 files of 2 blocks, alone and in directories, both directions | `SuccessIsComplete`, `FilesAreKept`, `BothEnd` |
| `hdc_forward` | 1 or 2 connections, either end the master, 5 mixes of faults; a device with 2 pieces out and 3 in | `StreamIsPrefix`, `GoneIsEmpty`, `DeviceInOrder`, `BothEnd`, `PointIsFreed` |
| `web_requests` | 2 connections, 1 file, 13 kinds of request | `AnswerFits`, `UploadIsExact`, `CompleteIsAnswered` |
| `hdc_data` | installs of up to 3 arguments over trees of every fill, with short, cut and overlong names; every number, edge values, damaged buffers, lines of 6 characters with spaces, tabs and quotes | `InstallIsWhole`, `DataArrives` |

Each property is preceded in its module by what it says. Most modules with variables state a type invariant,
`TypeOK`; eleven of them are proved. Properties that are proved and that no run names (`CallsAreLegal`, `StdoutIsOwn`,
`CallbackCleansUp`, `RunningIsCurrent`, `DescriptorsClosed`, `DetachFinds`) were checked with TLC before and can be again by naming them in the `.cfg`.

What the liveness properties leave out is in their text: `Delivers` and `SlotComes` of `HdcUart` say nothing of a daemon that is left over
from an earlier host, and `Delivers` nothing of a package that still waits for its slot; `LostIsRemoved` assumes that the daemons read again and again; `ClosedIsGone` says nothing of a channel
whose session has left its state `up`; `CompleteIsAnswered` nothing of a head that is not UTF-8; `FreedIsGone` nothing of a session whose reader is stranded (section 5); `Returns` nothing of a command that asks for a yes, a wait for a device that does not stay and a
channel that is bound to a session which dies before the channel is attached (`server_for_client.cpp:1020`). Of the
safety properties, `BothCanRead` names the merged read as the one in which the server takes a packet for garbage,
`AnswerFits` lets a request beyond a limit have either answer, `PrintsAll` lets other bytes be printed beside what was
sent, `InstallIsWhole` leaves out the files whose names fit neither field of a header and those that are larger than an
entry may be, and `DataArrives` takes an argument that has a tab and no space for its words. Section 5 has the properties
without these exceptions.

Deadlock is not checked: each of these systems may stop for good, once every command, session, transfer, connection
or job has come to its end. That they do not stop earlier is what the liveness properties say.

### 3.1 Bounds

- `MaxPending = 1`: a refresh that begins reads the intent afresh, so what the running one may miss the queued one behind
  it sees. The theorems hold for every bound. `MaxStarts = 2` is the least for a start that overtakes another; two takes
  the least that overlap.
- Two commands suffice for one that outlives its promise and one that follows; `MaxSeq = 1` gives each its own number,
  and the kill resets the counter so that both can have number 0. The theorems hold for every number of each.
- `Modulus = 5` and `MaxTimes = 3` let four tasks wrap the counter below zero and let the loop give up; two of
  them are for one channel, so that one overwrites the other.
- Two sessions with one key are the least that share a map entry. A channel waits for its session and itself, never
  for another channel, so one is enough; with up to three writes under way.
- `HdcStream`: a head is one unit and the buffers hold 2 and 6, so that packets and TLS records straddle reads and the
  buffer is moved up; two beats of the timer meet the handshake before and after it ends.
- `HdcUsb`: one scenario has an earlier session's packets, the others two sessions, of which the second meets what the
  first left: on a device that comes back, on one that does not open at once, and on one that stays. One packet of the
  server has two parts, between which everything else may happen. A device that is held, or for which no session is
  left, is put off again and again; one that could be had fails to open `tries` times at most, once in one scenario.
- `HdcUart`: with two losses and one retry a package and the acknowledgement of its repetition are lost, or a package
  twice, which uses up the retries. Two packages on each of two sessions are the least for which both work threads sleep
  and the wrong one is woken; the messages are finite, so that a thread that is passed over each time is not seen.
- `HdcTransfer`: the second block is the least that can be completed before the first; the second file shares its
  descriptor number with the first.
- `HdcForward`: `MaxLink` packets under way are as many as cross in one exchange. `MaxArrived = 3` lets a piece be
  written, one wait in the queue and one be pushed.
- `HeaderLimit = 2`, `MaxTransfer = 2`, `EchoLimit = 1`, `SendChunk = 1`: requests lie below, at and above each limit, a
  download takes more than one chunk, and bodies span several segments.
- `HdcClient`: two retries and three turns of `wait` are the first, a repeated and the last of each.
- `HdcData`: widths are scaled (`Group` 3 for 7 bits, `Word` 8 for 32, `Long` 12 for 64, `Narrow` 4 for 8), which keeps the
  last group of a number partly filled as in the code. The fields of a header have lengths 3, 4, 10 and 3 for 512, 100,
  255 and 12: names fit, are cut in two, and are too long for the two fields by one character
  and for the prefix alone; files end before, at and behind the edge of a block and of a buffer, and one has the size that
  an entry may not exceed (`ENTRY_MAX_FILE_SIZE`, 16). Lines of six characters hold a quoted word with a blank or a tab
  between two others; a line begins with a command.

### 3.2 Fairness

- `background`: weak fairness of `Refresh`: the event loop runs a continuation that is ready, and the system answers every
  call, with success or failure. Nothing is assumed of callers.
- `HdcCommand`: weak fairness of the ArkTS side only. Native threads may stop anywhere; a command then settles by its timer.
- `HdcTaskClear`: the timers of a child loop run. Operations of tasks need not end.
- `HdcSession`, `HdcChannel`: threads run, timers and callbacks that stay due are served (weak). Strong fairness is
  assumed where a loop serves other callbacks in between, which make the event false and true again: libuv polls every
  descriptor in each iteration, so a busy loop still comes to the control pipe and to the close callbacks. Strong
  fairness of `FreeSessionOpeate` and `FreeChannelOpeate` says that their repeated timer does not find the reference taken
  every single time; without it a session that sends without pause would never be freed. A `Send` to a daemon that does
  not read has no fairness: `WriteUvTcpFd` tries again for as long as the socket is full (`tcp.cpp:163`), and holds the
  mutex of all sessions. `LostIsRemoved` therefore assumes, in its own text, that no socket stays full for good, and the
  mutex is taken to come to each thread that waits for it.
- `HdcStream`: threads, the network and the daemon go on; clients and the timer need not. `HdcUart`: every thread runs,
  one that sleeps on the condition variable only after a `notify_one` has woken it, and the reads of a closed port fail; nobody need disconnect, and noise is a bounded number of events.
- `HdcUsb`: the loops, the timers, the pool and the threads run, and libusb ends what was cancelled, has timed out or is for a device that
  is gone; the device and the daemon need do nothing.
- `HdcTransfer`: loops and pool threads run what is ready; nobody has to cut a file. `HdcForward`: the loops run; clients,
  targets and users need do nothing. `HdcDevicePoint`: the three threads run and `select` ends (it has a timeout of 5 s),
  but a device may never take what is written to it; `PointIsFreed` says what that costs.
- `HdcClient`: client, server and the device's answers are served. `WebRequests`: the server's own steps are weakly fair;
  clients may leave or send nothing more.

## 4. Proofs

TLAPS checks the following for every value of the constants. All assumptions are the named `ASSUME`s of the modules:
`None` is no element, bounds are natural numbers, the sets of texts and keys are not confused. Each proof has the shape
`Init => IInv`, `IInv /\ [Next]_vars => IInv'`, `IInv => property`, with one step or lemma per action.

- `BackgroundServiceProofs`: `TypeCorrect`, `Convergence`, `BeliefCorrect`, `LegalCalls`. The convergence
  property says nothing while a refresh runs, so it is not inductive. `IInv` adds that a refresh that is out of date
  with the intent has another one queued behind it, and what system and belief are at each await. `CallersRefine` says
  that pages and settings as `AppServices` has them do nothing to the coordinator but what `BackgroundService` allows, so
  everything proved of it holds of them; `KeptAlive` needs only that who listens has told the coordinator. `OffAtRest`
  is about the recorder: its flags have a reason (`FlagsHaveReason`), a take that is delayed, being created or being
  stopped, and the background task is wanted, and a file open, only for one of these or for a take that runs. It is
  stated of `MCSpec`, the run's own specification, and `BesideRecorder` carries over to it what holds of the coordinator.
- `HdcCommandProofs`: `TypeCorrect`, `StdoutKept`, `OutputKept`, `CleanedUp`, `CancelHitsCurrent`, `SettledForGood`. What a
  file holds depends on who may write to descriptor 1, that on who holds the mutex (`Threads`), and that nobody else
  truncates or removes the file on the numbers of living threads being distinct (`Stages`, `Files`).
- `HdcSessionProofs`: `TypeCorrect`, `TornDownQuietly`, `EndsOnlyOnce`. The main thread takes a session apart without
  asking its thread when that thread polls nothing. This is safe only because the one STOP that ends the polling is sent
  by `FreeSessionOpeate` itself, because Connect does not return to the main loop while a thread is still in the
  pool's queue, and because `childCleared` without a thread comes only from a connect that has failed; `IInv` says so.
  The module also holds the proofs about the tasks of a session, of `HdcTaskClear` as the instance `Tasks`:
  `TasksTyped`. `TasksAreSound` repeats what `HdcTaskClear` assumes of its constants, which an instance does not hand on,
  and takes the set of tasks to be finite, for `Cardinality` to be a number.
- `HdcChannelProofs`: `TypeCorrect`, `TornDownQuietly`, `DetachIsAwaited`. A client that leaves may find its channel
  attached, being attached, or not yet looked at. `Counted` says who holds a reference to a channel and `Fetched` which
  of them is the session's thread. `Bound` and `Attached` say that nobody asks for the end of a channel while its ATTACH is
  on the way, and `Detached` that a DETACH is sent once and is taken by a channel that waits for it.

- `WebRequestsProofs`: `Types`, `OneAnswer`, `NoneLeaks`, `Uploads`. `Known` says of every connection, by the place its
  handler is suspended at, what its buffers and counters hold and which answers its request admits (`Underway`,
  `Answered`): what its text calls for (`Calls`) and, beyond a limit, the refusal (`Refusals`). An upload's file is truncated and written by others at any time; that a connection has written nothing
  beyond its place in the file (`Wrote`) is what makes the answer 200 mean what `UploadIsExact` says.
- `HdcUartProofs`: `Types`, `SlotHeld`, `Invariant`, `Implements`. `SlotHeld` says that a slot is held only while its work
  thread is about to list a package or one is listed that will give it back. That the link is a stream rests on one fact that no
  place shows: of each session and direction one package of data is on its way. `Direction` says so of all that is in a
  list, on the line, in a buffer or answered: its index is used up and none waits before it (`Fresh`), none is out of
  order (`Sorted`), the index that was dispatched last tells a copy from a new package (`Once`), and until the direction is
  over what is not dispatched is still listed (`Unbroken`).
  `Own` says which of this may belong to an earlier session. `Implements` is the
  refinement of `ReliableStream`'s safety, step by step: a send, a delivery, the end of a session, or nothing. The
  packages that `ClearUARTOutMap` keeps are a sequence filtered by a recursive function; that it keeps their order is
  proved by induction over the places, through `Chosen`.
- `HdcForwardProofs`: `Types`, `Prefix`, `NothingLeft`, `PrefixBeside`, `InOrderBeside`. `Flowing`: for as long as an end would take pieces
  (`Takes`), the link carries just those between what the end has queued and what the other has said (`Carries`).
  `Begun` and `Proper` say which packets can be on the link before an end has its context, for that is where a piece
  could be passed over; `Counted` and `Stopped` what the count of references stands for. `PrefixBeside` and `InOrderBeside` are
  stated of the run's specification with a device beside. The device's half is proved in the same module of the
  instance `Device`: `PointTypes` and `PiecesInOrder`. For the order, each piece is in one place (written, being
  written, queued, being pushed) and the places are in the reverse order of the numbers (`OnTheWay`).
- `HdcStreamProofs`: `StreamSound` and `UsbSound`, both stated of the run's specification. For the session over TCP,
  `Arriving` is all that is on its way to `OnRead` in the order in which it gets it: `ioBuf`, what TLS has not given
  out, the wire. `Chain` says of it that its units are those of the packets behind the last that was handled, to the last
  that was sent; a read and a decryption move units without changing it, `FetchIOBuf` takes exactly one packet off, the
  daemon adds one. It is given up only for a session that is dead. Nothing is asked of the daemon: its answers are any
  sequences of packets (`ScenarioType`). The other half is about `HdcUsb` as the instance `Usb`. What a reader is
  still to look at (`Coming`) is what its transfer has brought, then the channel. `Follows` says that the session's pieces
  in it go on where `got` ends, without a gap, and that each has its head before it or is one of the `payloadSize` that are
  expected; `Whole`, that nothing is missing at the end while the device is there. `FreshOf` is why the daemon has said
  nothing for a session that has not sent yet, and why nothing may be said of a session whose memory began with something
  else. `TakenOf` is what a freed session waits for: nobody reads and nobody sends any more. `Marks` says who is to take
  a mark away. What is asked of the constants is `UsbAssumption`.

Model-checked and not proved: all liveness properties, for they need ENABLED and fairness, and with them the liveness of
`ReliableStream`; `HdcArchive`, `SerialStruct`, `Tlv`, `HdcTransfer` and what uses them (`HdcInstall`, `HdcEncodings`),
whose operators are RECURSIVE, for which the provers lose their arithmetic; `BothCanRead` of `MCHdcStream`
and `BuffersFit` of `HdcStream`, the first of which needs a daemon that keeps to the protocol; and `HdcClient`. Induction is available where a set of numbers can be named (`Induction` in `HdcUartProofs`, from the
well-foundedness of finite intervals), not as the library's theorems with an operator for a parameter.

## 5. Known disagreements

These are properties one would expect, which a comment, a document or a caller relies on and the code does not keep.
They are stated in the modules, and no run lists them. TLC shows the behaviour when the property's name takes the place
of the properties in the `.cfg` of the run; two instances of their own are kept for those that need one.

| Property | Run's configuration | What happens |
|---|---|---|
| `TaskEndsWithServer` | `BackgroundService.cfg` | the auto-start switch of `HomePage` stops the server without telling the coordinator (`HomePage.ets:972`) |
| `SavedIsRunning` | `BackgroundService.cfg` | the same switch, and a failed listen, leave `WEB_SERVER_ON` |
| `SwitchShowsServer` | `BackgroundService.cfg` | a start that a page has left behind is unknown to the next page |
| `RecordingIsWanted`, `FailureIsOff` | `BackgroundService.cfg` | late clean-ups of one take drop the background task of the next; a rejected start leaves it wanted |
| `DeletesTheChosen` | `BackgroundService.cfg` | the callback of `findIndex` returns nothing, so `splice(-1, 1)` removes the last entry (`RecordCard.ets:149`) |
| `OutputIsolated` | `HdcCommand.cfg` | `napi.cpp:76` gives each command its own directory, but the number restarts with the process and `mkdir` keeps what is there: a cancelled command may be resolved with what a killed process left. `OutputIsOwn` bounds the effect |
| `PrintsNothingElse` | `HdcClient.cfg` | the text of `list targets -v` is replaced by a longer one, but the frame is printed, with the length of the new text: what an earlier read has left behind the frame is printed with it, and the new text never (`client.cpp:916-939`) |
| `FailureIsTold` | `HdcClient.cfg` | a refused connection returns 0 with an empty output |
| `RestHoldsNothing`, `ListsItsOwn` | `BackgroundService.cfg` | the late rest of one take's clean-up closes the file of the next, whose capture is then held and not released; the end of a take lists the name that the object holds after the await, which may be of the next take (`RecordViewModel.ets:41`) |
| `FreedIsQuiet` | `HdcTaskClear.cfg` | `AdminTask` with `OP_ADD` deletes the task that the channel's number is mapped to without asking `ReadyForRelease` (`session.cpp:831-835`), also one with an operation in flight |
| `OthersAreRemoved` | `HdcSession.cfg` | a daemon that stops reading keeps the mutex of all TCP sessions (`tcp.cpp:147,163-188`), and with it the work thread of a session to another daemon |
| `ConnectedExists` | `HdcSession.cfg` | `UpdateHdiInfo` writes back a copy of a map entry that the main thread has cleared in between: the entry points to a deleted session |
| `ReferencedExists` | `HdcChannel.cfg` | a channel to which `FetchCommand` has taken a reference after `FreeChannelOpeate` saw 0 is deleted |
| `FinallyAfterCallbacks` | `HdcChannel.cfg` | the repeated timer of a connect keeps the bare channel; a client that leaves first is deleted under it |
| `FinishComesLast` | `HdcTransfer.cfg` | the slave asks for the next file while its last write is under way, against the comment at `transfer.cpp:279` |
| `AnswersGo` | `HdcUart.cfg` | an acknowledgement may stay in the list for ever, against the comment at `uart.cpp:730` |
| `NothingIsGarbage` | `HdcStreamMerged.cfg` | `ReadStream` looks at `sslHandshake` once per read: a TLS record that arrives with the last plain packet is taken for a packet and ends the session |
| `NothingStale` | `HdcStream.cfg` | `HdcUSB` does not set `payloadSize`: what an earlier session left may be taken for data although `CheckPacketOption` says "we need to ignore it" (`usb.cpp:167`). `OwnStream` says the rest |
| `NobodyIsStranded` | `HdcStream.cfg` | the reader looks at `isDead`, `CancelUsbIo` shuts the idle endpoint, the reader submits a transfer without timeout: nobody cancels it, and the session waits for its reference until the device speaks or goes |
| `NobodyUsesTheDeleted` | `HdcStream.cfg` | on USB, `ClearUsbChannel` runs with no reference to the session, and the reader gives its own up before `isShutdown` and `usbMountPoint` |
| `ConnectedIsListed` | `HdcStream.cfg` | a session freed late makes the entry of its device OFFLINE, which by then is of the next session |
| `NobodyUsesTheDeleted`, `UsesItsDevice` | `HdcForward.cfg` | the reader gives its reference back before its last use of the object, the destructor waits 10 ms for the writer, and `FreeJDWP` closes the number both threads keep |
| `OpenIsNeeded` | `HdcForward.cfg` | the failure of an open is kept in a `uint8_t` and is 255, so the point goes on (`forward.cpp:442`) |
| `DeviceHasNoGap` | `HdcForward.cfg` | a write error drops one piece and goes on with the next |
| `NoTarIsLeft`, `KeepsUserFiles` | `HdcDataKnown.cfg` | every queued path that contains `.tar` is taken for one the task has made (`host_app.cpp:174`); a failing open leaves the made ones |
| `NothingIsMissing` | `HdcDataKnown.cfg` | `Compress::maxcount` is never initialised and may end the archive early, and nobody is told; hidden files are left out too (`VisibleIn`) |
| `TruncatedIsNoticed`, `UnknownIsSkipped` | `HdcDataKnown.cfg` | `ParseFromString` is always true; the payload of an unknown field is read as keys |
| `LongNamesArrive` | `HdcDataKnown.cfg` | a name that is too long for the name field and fits the prefix is cut so that characters of it are lost; one that is too long for the prefix is not written at all (`header.cpp:54-84`) |
| `ArgumentsStayWhole` | `HdcDataKnown.cfg` | an argument is quoted if it has a space (`napi.cpp`, `main.cpp:152`), and `SplitCommandToArgs` splits at tabs and newlines too: an argument with a tab arrives as its words |
| `OverLimitIsRefused` | `WebRequests.cfg` | the length of a head is compared only when a segment ends inside it, that of a body only before it is complete, so that the answer depends on how TCP cuts the bytes (`WebServerUtil.ets:228-232,263-266`) |
| `EveryHeadIsAnswered` | `WebRequests.cfg` | a head that is not UTF-8 is longer when its text is encoded again (`:411`); as many bytes of the body are skipped, and the request waits for them |
| `RateLimited` | `WebRequests.cfg` | the limit is read before the first await of a download and recorded after the last, so overlapping requests are all served |

Met while reading and not modelled: `-0.0` and empty nested vectors are not written, so they read as defaults;
`WaitFor` and `CMD_SERVER_KILL` call `_exit(0)`, which ends the whole application; `ConfirmCommand` spins at the end of
its input (`host_updater.cpp:302`); a directory that cannot be read is skipped silently; the workers' loop tests
`isRunning` inside a computation that no message can interrupt, and a START soon after a STOP runs two loops; a floating
window that is hidden, or shown again, before `createWindow` resolves stays on the screen without an owner.

## 6. Plan

1. Composition: `HdcSession` with `HdcTaskClear`, whose whole clear is the refinement of the step `ClearEnds`; the session
   of `HdcChannel` (`session`, `loop`) as an abstraction of `HdcSession`, by INSTANCE with a refinement mapping.
2. `HdcTransfer` over `ReliableStream` in place of its own queue, and `HdcInstall` over `HdcTransfer`.
3. Proofs: `BothCanRead` of `HdcStream`, from the place of the last plain packet in the stream and what a daemon may
   answer; `RunsOnceWhereBound` of `HdcClient`.
4. Serial ports that are found and watched, once a build of this application opens any.

## 7. What is left out

- Floating windows: what the pages rely on does not hold (section 5), so there is nothing a run could pass.
- Workers: load and straight-line arithmetic behind START, UPDATE and STOP messages.
- Circular buffer: a pool behind one mutex. The host never starts the timer that frees idle buffers
  (`circle_buffer.cpp`, `TimerStart`), so buffers are kept until the end.
- USB: `host_usb.cpp` is built, but the build links stubs in place of the libusb that is not vendored, whose `libusb_init`
  fails; `HdcUsb` is of the code as it runs with a libusb. Left out are the descriptors a device is chosen by, the
  serial number and more than one device. `password.cpp` and `hdc_huks.cpp` are not
  in the build, and `common/base.cpp`, `common/auth.cpp`, `host/server.cpp`, `host/server_for_client.cpp` are overridden.
- In `HdcCommand`: `startServer` and the readiness probe, and `hdc.err`, which goes the way of `hdc.out`. In `HdcClient`:
  bugreport, flashing, interactive shells, Unix sockets, a daemon that has refused its key.
- In `HdcSession` and `HdcChannel`: the end of the whole server; the commands' own work is in `HdcClient`.
- In `HdcUart`: naming, watching and opening ports; no port is ever opened in this build. In `HdcForward`: jdwp and ark
  points, which the daemon adds, and a device at the listening end.
- In `WebRequests`: the text of directory listings, the minute of the rate limit as time (`LimitEnds` may come at any
  moment). HTTP parsing and path resolution are reduced to their outcome, which is part of the request.
- Cryptography, compression, time stamps, wording of notifications and logs, layout of pages.
- Memory below the models' grain: two threads inside one C++ container, one OpenSSL object or one libuv heap.
- The daemon is not in the repository. Where both sides run the same classes its side is taken from the code here;
  elsewhere it is the environment.
- Vendored libraries: openssl, cJSON, libusb, lz4, libuv, bounds_checking_function.
